---------------------------- MODULE Spec2Model ----------------------------
(***************************************************************************)
(* A model of the document converter: the HTML -> Markdown / plain-text    *)
(* rendering engine of WordConverter (pagination normalizer, code-fragment *)
(* merger, language classifier, block renderer, table layout engine), the  *)
(* PDF text renderer and the dispatch of DocumentConverter.                *)
(*                                                                         *)
(* Strings are sequences of characters (one-element strings); the regular  *)
(* expressions of the source are transcribed node by node and run by a     *)
(* backtracking matcher with the priorities of the JavaScript engine.      *)
(***************************************************************************)
EXTENDS Integers, Sequences, FiniteSets, TLC

VARIABLES
    pc,             \* position of the running operation
    html,           \* the HTML handed to the operation
    processedHtml,  \* mergeFragmentedCodeBlocks: the document being rewritten
    matches,        \* mergeFragmentedCodeBlocks: the current match list
    i,              \* mergeFragmentedCodeBlocks: index of the pair examined
    mergeCount,     \* mergeFragmentedCodeBlocks: merges done
    iters,          \* iterations of the merge loop taken so far
    out,            \* the string returned by the operation
    images,         \* the files present in the images directory
    job,            \* the request handed to a converter
    files,          \* the file system: what each path holds
    result          \* what the converter returned or rendered

vars == <<pc, html, processedHtml, matches, i, mergeCount, iters, out, images, job, files, result>>

(***************************************************************************)
(* Characters and strings                                                  *)
(***************************************************************************)
Chars(str) == [j \in 1..Len(str) |-> SubSeq(str, j, j)]

LowerSeq == Chars("abcdefghijklmnopqrstuvwxyz")
UpperSeq == Chars("ABCDEFGHIJKLMNOPQRSTUVWXYZ")
LowerSet == {LowerSeq[j] : j \in 1..Len(LowerSeq)}
UpperSet == {UpperSeq[j] : j \in 1..Len(UpperSeq)}
DigitSet == {"0", "1", "2", "3", "4", "5", "6", "7", "8", "9"}
LowerOf == [c \in UpperSet |-> LowerSeq[CHOOSE j \in 1..Len(UpperSeq) : UpperSeq[j] = c]]
UpperOf == [c \in LowerSet |-> UpperSeq[CHOOSE j \in 1..Len(LowerSeq) : LowerSeq[j] = c]]
ToLower(c) == IF c \in UpperSet THEN LowerOf[c] ELSE c
ToUpper(c) == IF c \in LowerSet THEN UpperOf[c] ELSE c

NBSP == "U+00A0"                                   \* the no-break space character
\* A character of the CJK Unified Ideographs block U+4E00..U+9FFF is written
\* as one element "U+XXXX".
CJK == {"U+540D", "U+79F0", "U+674E", "U+7B2C", "U+9875", "U+7AE0", "U+8282", "U+7EED",
        "U+63A5", "U+4E0A", "U+4E0B", "U+89C1", "U+8F6C", "U+8868", "U+683C", "U+4EE3",
        "U+7801", "U+5757", "U+5185", "U+5BB9", "U+4E3A", "U+7A7A", "U+56FE", "U+7247"}
LineTerm == {"\n", "\r"}
WS == {" ", "\t", "\n", "\r", "\f", NBSP}            \* \s
WordSet == LowerSet \cup UpperSet \cup DigitSet \cup {"_"}  \* \w

RECURSIVE Concat(_)
Concat(ss) == IF ss = <<>> THEN <<>> ELSE Head(ss) \o Concat(Tail(ss))

RECURSIVE Repeat(_, _)
Repeat(s, n) == IF n <= 0 THEN <<>> ELSE s \o Repeat(s, n - 1)

(***************************************************************************)
(* Regular expressions: a sequence of nodes.                               *)
(***************************************************************************)
Node(k, cs, neg, min, max, lazy, alts) ==
    [k |-> k, cs |-> cs, neg |-> neg, min |-> min, max |-> max, lazy |-> lazy, alts |-> alts]
In(S)      == <<Node("c", S, FALSE, 1, 1, FALSE, <<>>)>>      \* [S]
NotIn(S)   == <<Node("c", S, TRUE, 1, 1, FALSE, <<>>)>>       \* [^S]
Dot        == NotIn(LineTerm)                                  \* .  (no s flag)
DotAll     == NotIn({})                                        \* .  (s flag)
Lit(str)   == IF Len(str) = 1 THEN In({str})                   \* literal text
              ELSE <<Node("lit", {}, FALSE, 1, 1, FALSE, Chars(str))>>
Quant(r, min, max, lazy) == <<[r[1] EXCEPT !.min = min, !.max = max, !.lazy = lazy]>>
Star(r)    == Quant(r, 0, -1, FALSE)                           \* r*
Plus(r)    == Quant(r, 1, -1, FALSE)                           \* r+
Opt(r)     == Quant(r, 0, 1, FALSE)                            \* r?
LazyStar(r) == Quant(r, 0, -1, TRUE)                           \* r*?
AtLeast(r, n) == Quant(r, n, -1, FALSE)                        \* r{n,}
Alt(alts)  == <<Node("alt", {}, FALSE, 1, 1, FALSE, alts)>>   \* (a|b|...)
BOL        == <<Node("bol", {}, FALSE, 1, 1, FALSE, <<>>)>>   \* ^
EOL        == <<Node("eol", {}, FALSE, 1, 1, FALSE, <<>>)>>   \* $
WB         == <<Node("wb", {}, FALSE, 1, 1, FALSE, <<>>)>>    \* \b
Mark       == <<Node("mark", {}, FALSE, 1, 1, FALSE, <<>>)>>  \* a capture parenthesis
Cap(r)     == Mark \o r \o Mark                                \* (r)

\* flags: i (ignore case), m (multiline)
Flags(ci, ml) == [i |-> ci, m |-> ml]
F0  == Flags(FALSE, FALSE)
FI  == Flags(TRUE, FALSE)
FM  == Flags(FALSE, TRUE)

Hit(n, c, fl) ==
    (c \in n.cs \/ (fl.i /\ (ToLower(c) \in n.cs \/ ToUpper(c) \in n.cs))) # n.neg

Min(a, b) == IF a < b THEN a ELSE b

\* how many characters from p on match node n, at most cap (cap < 0: no limit)
RunLen(n, s, p, fl, cap) ==
    LET room == Len(s) - p + 1
        lim == IF cap < 0 THEN room ELSE Min(cap, room)
    IN  CHOOSE r \in 0..lim :
            /\ r = lim \/ ~Hit(n, s[p + r], fl)
            /\ \A j \in 0..(r - 1) : Hit(n, s[p + j], fl)

\* the literal text lit stands at position p of s
LitAt(lit, s, p, fl) ==
    /\ p + Len(lit) - 1 <= Len(s)
    /\ \A j \in 1..Len(lit) :
          \/ s[p + j - 1] = lit[j]
          \/ fl.i /\ ToLower(s[p + j - 1]) = ToLower(lit[j])

IsWordAt(s, p) == p >= 1 /\ p <= Len(s) /\ s[p] \in WordSet

\* of the attempts rs (pairs <<priority, result>>), the result of the successful
\* one with the least priority number; <<>> when none succeeds
FirstOf(rs) ==
    LET ok == {x \in rs : x[2] # <<>>} IN
    IF ok = {} THEN <<>>
    ELSE (CHOOSE x \in ok : \A y \in ok : x[1] <= y[1])[2]

RECURSIVE M(_, _, _, _, _, _)
\* The first match, in the engine's backtracking order, of re[k..] at position p
\* of s: <<>> when there is none, else <<[e |-> end (exclusive), m |-> marks]>>.
M(re, k, s, p, fl, marks) ==
    IF k > Len(re) THEN <<[e |-> p, m |-> marks]>>
    ELSE LET n == re[k] IN
      CASE n.k = "bol" ->
             IF p = 1 \/ (fl.m /\ s[p - 1] \in LineTerm)
             THEN M(re, k + 1, s, p, fl, marks) ELSE <<>>
        [] n.k = "eol" ->
             IF p = Len(s) + 1 \/ (fl.m /\ s[p] \in LineTerm)
             THEN M(re, k + 1, s, p, fl, marks) ELSE <<>>
        [] n.k = "wb" ->
             IF IsWordAt(s, p - 1) # IsWordAt(s, p)
             THEN M(re, k + 1, s, p, fl, marks) ELSE <<>>
        [] n.k = "mark" -> M(re, k + 1, s, p, fl, Append(marks, p))
        [] n.k = "lit" ->
             IF LitAt(n.alts, s, p, fl)
             THEN M(re, k + 1, s, p + Len(n.alts), fl, marks) ELSE <<>>
        [] n.k = "alt" ->
             \* the alternatives in order, each followed by the rest of re
             FirstOf({<<a, M(n.alts[a] \o SubSeq(re, k + 1, Len(re)), 1, s, p, fl, marks)>> :
                        a \in 1..Len(n.alts)})
        [] OTHER ->
             IF n.min = 1 /\ n.max = 1
             THEN IF p <= Len(s) /\ Hit(n, s[p], fl)
                  THEN M(re, k + 1, s, p + 1, fl, marks) ELSE <<>>
             ELSE \* a quantified class: greedy tries the longest run first,
                  \* lazy the shortest
                  LET run == RunLen(n, s, p, fl, n.max) IN
                  FirstOf({<<IF n.lazy THEN c ELSE run - c,
                             M(re, k + 1, s, p + c, fl, marks)>> : c \in n.min..run})

\* re matches somewhere in s (RegExp.test)
Test(re, s, fl) == \E q \in 1..(Len(s) + 1) : M(re, 1, s, q, fl, <<>>) # <<>>

\* every position of s where re matches, with the match found there
Table(re, s, fl) ==
    {x \in {<<q, M(re, 1, s, q, fl, <<>>)>> : q \in 1..(Len(s) + 1)} : x[2] # <<>>}

\* the match object of a table entry: start, end (exclusive), match[0] and
\* the captured groups match[1..]
MatchObject(s, x) ==
    [i |-> x[1], e |-> x[2][1].e, w |-> SubSeq(s, x[1], x[2][1].e - 1),
     g |-> [j \in 1..(Len(x[2][1].m) \div 2) |->
              SubSeq(s, x[2][1].m[2 * j - 1], x[2][1].m[2 * j] - 1)]]

\* the leftmost match of the table at or after position p: <<>> or <<match>>
SearchIn(T, s, p) ==
    IF \A x \in T : x[1] < p THEN <<>>
    ELSE <<MatchObject(s, CHOOSE x \in T : /\ x[1] >= p
                                           /\ \A y \in T : y[1] >= p => x[1] <= y[1])>>

Search(re, s, p, fl) == SearchIn(Table(re, s, fl), s, p)

\* where the scan resumes after match mt (an empty match advances by one)
Resume(mt) == IF mt.e = mt.i THEN mt.e + 1 ELSE mt.e

RECURSIVE MatchAllIn(_, _, _)
MatchAllIn(T, s, p) ==
    IF \A x \in T : x[1] < p THEN <<>>
    ELSE SearchIn(T, s, p) \o MatchAllIn(T, s, Resume(SearchIn(T, s, p)[1]))

MatchAll(re, s, fl) == MatchAllIn(Table(re, s, fl), s, 1)    \* String.matchAll, g flag

\* s with each match of ms replaced by R(match)
Splice(ms, s, R(_)) ==
    Concat([j \in 1..Len(ms) |->
              SubSeq(s, IF j = 1 THEN 1 ELSE ms[j - 1].e, ms[j].i - 1) \o R(ms[j])])
      \o SubSeq(s, IF ms = <<>> THEN 1 ELSE ms[Len(ms)].e, Len(s))

\* F applied to the value of v: a call by value, as a method call evaluates
\* its receiver before the method runs
On(v, F(_)) == CHOOSE r \in {F(x) : x \in {v}} : TRUE

\* String.replace with a global regex: R(mt) is the replacement of match mt
ReplaceAll(re, s, fl, R(_)) == On(s, LAMBDA x : Splice(MatchAll(re, x, fl), x, R))

\* String.replace with a regex without the g flag: the first match only
ReplaceFirst(re, s, fl, R(_)) == On(s, LAMBDA x : Splice(Search(re, x, 1, fl), x, R))

Remove(re, s, fl) == ReplaceAll(re, s, fl, LAMBDA mt : <<>>)

\* the positions of s that hold a character outside \s
Inked(s) == {j \in 1..Len(s) : s[j] \notin WS}
First(S) == CHOOSE j \in S : \A q \in S : j <= q
Last(S) == CHOOSE j \in S : \A q \in S : j >= q
TrimStart(s) == IF Inked(s) = {} THEN <<>> ELSE SubSeq(s, First(Inked(s)), Len(s))
TrimEnd(s) == IF Inked(s) = {} THEN <<>> ELSE SubSeq(s, 1, Last(Inked(s)))
Trim(s) == On(s, LAMBDA x : TrimEnd(TrimStart(x)))           \* String.trim

StartsWith(s, t) == Len(s) >= Len(t) /\ SubSeq(s, 1, Len(t)) = t
EndsWith(s, t) == Len(s) >= Len(t) /\ SubSeq(s, Len(s) - Len(t) + 1, Len(s)) = t
Includes(s, t) == \E p \in 1..(Len(s) - Len(t) + 1) : SubSeq(s, p, p + Len(t) - 1) = t
StrLower(s) == [j \in 1..Len(s) |-> ToLower(s[j])]          \* String.toLowerCase

RECURSIVE SplitLines(_)
\* String.split('\n')
SplitLines(s) ==
    IF \A j \in 1..Len(s) : s[j] # "\n" THEN <<s>>
    ELSE LET p == CHOOSE j \in 1..Len(s) : s[j] = "\n" /\ \A q \in 1..(j - 1) : s[q] # "\n"
         IN <<SubSeq(s, 1, p - 1)>> \o SplitLines(SubSeq(s, p + 1, Len(s)))

(***************************************************************************)
(* WordConverter: the pagination normalizer                                *)
(***************************************************************************)
NotGt == NotIn({">"})                                         \* [^>]
NotQuote == NotIn({"\""})                                     \* [^"]
Space == In(WS)                                               \* \s

\* /<w:br\s+w:type="page"[^>]*>/gi
RePageBr == Lit("<w:br") \o Plus(Space) \o Lit("w:type=\"page\"") \o Star(NotGt) \o Lit(">")
\* <TAG[^>]*ATTR="[^"]*KEY[^"]*"[^>]*>
StyledTag(tag, attr, key) ==
    Lit(tag) \o Star(NotGt) \o Lit(attr) \o Lit("=\"") \o Star(NotQuote) \o Lit(key)
      \o Star(NotQuote) \o Lit("\"") \o Star(NotGt) \o Lit(">")
\* /<br[^>]*style="[^"]*page-break[^"]*"[^>]*>/gi
ReBrPageBreak == StyledTag("<br", "style", "page-break")
\* /<div[^>]*style="[^"]*page-break[^"]*"[^>]*>.*?<\/div>/gis
ReDivStylePageBreak == StyledTag("<div", "style", "page-break") \o LazyStar(DotAll) \o Lit("</div>")
\* /<hr[^>]*style="[^"]*page-break[^"]*"[^>]*>/gi
ReHrPageBreak == StyledTag("<hr", "style", "page-break")
\* /<div[^>]*class="[^"]*page-break[^"]*"[^>]*>.*?<\/div>/gis
ReDivClassPageBreak == StyledTag("<div", "class", "page-break") \o LazyStar(DotAll) \o Lit("</div>")
\* /<p[^>]*>\s*<\/p>/gi
ReEmptyP == Lit("<p") \o Star(NotGt) \o Lit(">") \o Star(Space) \o Lit("</p>")
\* /<div[^>]*>\s*<\/div>/gi
ReEmptyDiv == Lit("<div") \o Star(NotGt) \o Lit(">") \o Star(Space) \o Lit("</div>")
\* /\n\s*\n\s*\n/g
ReBlankLines == Lit("\n") \o Star(Space) \o Lit("\n") \o Star(Space) \o Lit("\n")
\* /\s{3,}/g
ReSpaces3 == AtLeast(Space, 3)
\* /<!--\s*PageBreak\s*-->/gi
ReCommentPageBreak == Lit("<!--") \o Star(Space) \o Lit("PageBreak") \o Star(Space) \o Lit("-->")
\* /<span[^>]*style="[^"]*mso-[^"]*"[^>]*>.*?<\/span>/gis
ReMsoSpan == StyledTag("<span", "style", "mso-") \o LazyStar(DotAll) \o Lit("</span>")

\* the replacements of removePageBreaks, the first one innermost (lines 698-716)
removePageBreaks(h) ==
    Remove(ReMsoSpan,
      Remove(ReCommentPageBreak,
        ReplaceAll(ReSpaces3,
          ReplaceAll(ReBlankLines,
            Remove(ReEmptyDiv,
              Remove(ReEmptyP,
                Remove(ReDivClassPageBreak,
                  Remove(ReHrPageBreak,
                    Remove(ReDivStylePageBreak,
                      Remove(ReBrPageBreak,
                        Remove(RePageBr, h, FI),
                      FI), FI), FI), FI), FI), FI),
            F0, LAMBDA mt : Chars("\n\n")),
          F0, LAMBDA mt : Chars(" ")),
      FI), FI)

(***************************************************************************)
(* WordConverter: cleaning and classifying code                            *)
(***************************************************************************)
ReTag == Lit("<") \o Plus(NotGt) \o Lit(">")                  \* /<[^>]+>/g
Subst(s, from, to) == ReplaceAll(Lit(from), s, F0, LAMBDA mt : Chars(to))
StripTags(s) == Remove(ReTag, s, F0)

\* /\n{4,}/g
ReNewlines4 == AtLeast(Lit("\n"), 4)
\* /^[ \t]+$/gm
ReBlankLine == BOL \o Plus(In({" ", "\t"})) \o EOL
\* /^\n+/
ReLeadingNewlines == BOL \o Plus(Lit("\n"))
\* /\n+$/
ReTrailingNewlines == Plus(Lit("\n")) \o EOL

\* the entity replacements of cleanCodeContent, the first one innermost
DecodeEntities(s) ==
    Subst(Subst(Subst(Subst(Subst(Subst(Subst(s,
      "&lt;", "<"), "&gt;", ">"), "&amp;", "&"), "&quot;", "\""), "&#39;", "'"),
      "&nbsp;", " "), "&apos;", "'")

\* the whitespace replacements of cleanCodeContent, the first one innermost
TidyLines(s) ==
    ReplaceFirst(ReTrailingNewlines,
      ReplaceFirst(ReLeadingNewlines,
        Remove(ReBlankLine,
          ReplaceAll(ReNewlines4, s, F0, LAMBDA mt : Chars("\n\n\n")),
        FM),
      F0, LAMBDA mt : <<>>),
    F0, LAMBDA mt : <<>>)

cleanCodeContent(code) == TidyLines(DecodeEntities(StripTags(code)))

W == In(WordSet)                                              \* \w
WDash == In(WordSet \cup {"-"})                               \* [\w-]
Kw(str) == Lit(str) \o Plus(Space)                            \* str\s+
KwW(str) == Lit(str) \o Plus(Space) \o Plus(W)                \* str\s+\w+
Pat(re, fl) == [re |-> re, fl |-> fl]

\* the table of detectCodeLanguage, in its declaration order
languagePatterns == <<
    [lang |-> "python", patterns |-> <<
        Pat(KwW("def"), F0), Pat(KwW("class"), F0), Pat(KwW("import"), F0),
        Pat(KwW("from"), F0), Pat(Kw("if") \o Lit("__name__"), F0),
        Pat(Lit("print") \o Star(Space) \o Lit("("), F0),
        Pat(Lit(":") \o Star(Space) \o EOL, F0),
        Pat(BOL \o Star(Space) \o Lit("#"), FM) >>],
    [lang |-> "javascript", patterns |-> <<
        Pat(KwW("function"), F0), Pat(KwW("const"), F0), Pat(KwW("let"), F0),
        Pat(KwW("var"), F0), Pat(Lit("=>") \o Star(Space) \o Opt(Lit("{")), F0),
        Pat(Lit("console.log"), F0), Pat(Lit("//"), F0),
        Pat(Lit("/*") \o Star(Dot) \o Lit("*/"), F0) >>],
    [lang |-> "java", patterns |-> <<
        Pat(Kw("public") \o Lit("class"), F0), Pat(KwW("private"), F0),
        Pat(Kw("public") \o Lit("static"), F0), Pat(Kw("import") \o Lit("java"), F0),
        Pat(Lit("System.out"), F0), Pat(Lit("//"), F0) >>],
    [lang |-> "csharp", patterns |-> <<
        Pat(Kw("public") \o Lit("class"), F0), Pat(KwW("private"), F0),
        Pat(Kw("using") \o Lit("System"), F0), Pat(KwW("namespace"), F0),
        Pat(Lit("Console.WriteLine"), F0), Pat(Lit("//"), F0) >>],
    [lang |-> "css", patterns |-> <<
        Pat(Plus(W) \o Star(Space) \o Lit("{"), F0),
        Pat(Lit(":") \o Star(Space) \o Plus(NotIn({";"})) \o Lit(";"), F0),
        Pat(Lit("@media"), F0), Pat(Lit(".") \o Plus(WDash), F0),
        Pat(Lit("/*") \o Star(Dot) \o Lit("*/"), F0), Pat(Lit("#") \o Plus(WDash), F0) >>],
    [lang |-> "html", patterns |-> <<
        Pat(Lit("<") \o Plus(W) \o Star(NotGt) \o Lit(">"), F0),
        Pat(Lit("</") \o Plus(W) \o Lit(">"), F0), Pat(Lit("<!DOCTYPE"), F0),
        Pat(Lit("<html"), F0), Pat(Lit("<!--") \o Star(Dot) \o Lit("-->"), F0),
        Pat(Lit("class") \o Star(Space) \o Lit("="), F0) >>],
    [lang |-> "sql", patterns |-> <<
        Pat(Kw("SELECT"), FI), Pat(Kw("FROM"), FI), Pat(Kw("WHERE"), FI),
        Pat(Kw("INSERT"), FI), Pat(Kw("UPDATE"), FI), Pat(Kw("DELETE"), FI),
        Pat(Kw("CREATE"), FI), Pat(Lit("--"), F0) >>],
    [lang |-> "bash", patterns |-> <<
        Pat(Lit("#!"), F0), Pat(Lit("$") \o Plus(W), F0), Pat(Kw("echo"), F0),
        Pat(Kw("cd"), F0), Pat(Kw("ls"), F0), Pat(Kw("grep"), F0) >>],
    [lang |-> "json", patterns |-> <<
        Pat(BOL \o Star(Space) \o Lit("{"), F0), Pat(BOL \o Star(Space) \o Lit("["), F0),
        Pat(Lit("\"") \o Plus(WDash) \o Lit("\"") \o Star(Space) \o Lit(":"), F0),
        Pat(BOL \o Star(Space) \o Lit("\"") \o Plus(WDash) \o Lit("\""), F0) >>] >>

\* patterns.some(pattern => pattern.test(code))
Some(patterns, code) == \E j \in 1..Len(patterns) : Test(patterns[j].re, code, patterns[j].fl)
SomeRe(res, code) == \E j \in 1..Len(res) : Test(res[j], code, F0)

RECURSIVE FirstLanguage(_, _, _)
\* the for-loop of detectCodeLanguage over the entries of table from index k on
FirstLanguage(table, k, code) ==
    IF k > Len(table) THEN ""
    ELSE IF Some(table[k].patterns, code) THEN table[k].lang
    ELSE FirstLanguage(table, k + 1, code)

\* the classifier made to scan its table from the last entry to the first
detectCodeLanguageBackwards(code) ==
    FirstLanguage([k \in 1..Len(languagePatterns) |->
                      languagePatterns[Len(languagePatterns) + 1 - k]], 1, code)

detectCodeLanguage(code) == FirstLanguage(languagePatterns, 1, code)

SameLanguage(lang1, lang2) == lang1 # "" /\ lang2 # "" /\ lang1 = lang2
isSameProgrammingLanguage(code1, code2) ==
    SameLanguage(detectCodeLanguage(code1), detectCodeLanguage(code2))

(***************************************************************************)
(* WordConverter: the code-fragment merger                                 *)
(***************************************************************************)
pageBreakKeywords == <<
    <<"U+7B2C">>, <<"U+9875">>, Chars("page"), <<"U+7AE0">>, Chars("chapter"), <<"U+8282">>,
    Chars("section"), <<"U+7EED">>, <<"U+63A5", "U+4E0A", "U+9875">>,
    <<"U+63A5", "U+4E0B", "U+9875">>, <<"U+89C1", "U+4E0B", "U+9875">>,
    <<"U+8F6C", "U+4E0B", "U+9875">> >>

isPageBreakContent(content) ==
    \E j \in 1..Len(pageBreakKeywords) :
        Includes(StrLower(content), StrLower(pageBreakKeywords[j]))

Sp == Star(Space)                                             \* \s*
EndsIn(str) == Lit(str) \o Sp \o EOL                          \* /str\s*$/
Starts(r) == BOL \o Sp \o r                                   \* /^\s*r/
IdentStart == In(LowerSet \cup UpperSet \cup {"_", "$"})      \* [a-zA-Z_$]
IdentRest == Star(In(WordSet \cup {"$"}))                     \* [\w$]*

incompleteEndPatterns == <<
    EndsIn("{"), EndsIn("("), EndsIn("["),
    EndsIn(","), EndsIn("+"), EndsIn("-"), EndsIn("*"), EndsIn("/"),
    EndsIn("="), EndsIn(":"), EndsIn("."),
    EndsIn("if"), EndsIn("else"), EndsIn("for"), EndsIn("while"),
    EndsIn("def"), EndsIn("function"), EndsIn("class"),
    EndsIn("import"), EndsIn("from"), EndsIn("return"),
    EndsIn("\\") >>

continuationStartPatterns == <<
    Starts(Lit("}")), Starts(Lit(")")), Starts(Lit("]")),
    Starts(IdentStart \o IdentRest),
    Starts(Plus(In(DigitSet))),
    Starts(In({"\"", "'"})),
    Starts(In({"+", "-", "*", "/", "=", "<", ">", "!", "&", "|"})),
    Starts(Alt(<<Lit("and"), Lit("or"), Lit("not"), Lit("in"), Lit("is")>>) \o WB),
    Starts(Alt(<<Lit("&&"), Lit("||"), Lit("!"), Lit("=="), Lit("!="), Lit("<="), Lit(">=")>>)) >>

hasCodeContinuity(code1, code2) ==
    \/ SomeRe(incompleteEndPatterns, code1)          \* hasIncompleteEnd
    \/ SomeRe(continuationStartPatterns, code2)      \* hasContinuationStart

\* lines.filter(line => line.trim().length > 0).map(line => line.match(/^(\s*)/)[1].length)
Indentations(lines) == [j \in 1..Len(lines) |-> Len(lines[j]) - Len(TrimStart(lines[j]))]
getIndentationPattern(code) ==
    Indentations(SelectSeq(SplitLines(code), LAMBDA line : Len(Trim(line)) > 0))

Abs(x) == IF x < 0 THEN -x ELSE x
IndentTolerance == 4

\* the comparison of the last indentation of code1 with the first of code2
SimilarIndents(indent1, indent2) ==
    IF Len(indent1) = 0 \/ Len(indent2) = 0 THEN FALSE
    ELSE Abs(indent1[Len(indent1)] - indent2[1]) <= IndentTolerance

hasSimilarIndentation(code1, code2) ==
    SimilarIndents(getIndentationPattern(code1), getIndentationPattern(code2))

completeStatementPatterns == <<
    In({";", "}"}) \o Sp \o EOL,
    BOL \o Sp \o Lit("#") \o Star(Dot) \o EOL,
    BOL \o Sp \o Lit("//") \o Star(Dot) \o EOL,
    BOL \o Sp \o Lit("/*") \o Star(Dot) \o Lit("*/") \o Sp \o EOL,
    Lit(":") \o Sp \o EOL,
    BOL \o Sp \o Lit("pass") \o Sp \o EOL,
    BOL \o Sp \o Lit("return") \o WB,
    BOL \o Sp \o Lit("break") \o Sp \o EOL,
    BOL \o Sp \o Lit("continue") \o Sp \o EOL >>

LastOf(seq) == seq[Len(seq)]

endsWithCompleteStatement(code) ==
    SomeRe(completeStatementPatterns, Trim(LastOf(SplitLines(Trim(code)))))

completeStatementStartPatterns == <<
    BOL \o Alt(<<Lit("def"), Lit("class"), Lit("if"), Lit("for"), Lit("while"), Lit("try"),
                 Lit("with"), Lit("import"), Lit("from")>>) \o WB,
    BOL \o Alt(<<Lit("function"), Lit("const"), Lit("let"), Lit("var"), Lit("if"), Lit("for"),
                 Lit("while"), Lit("try"), Lit("class")>>) \o WB,
    BOL \o Alt(<<Lit("public"), Lit("private"), Lit("protected"), Lit("static"),
                 Lit("final")>>) \o WB,
    BOL \o Plus(W) \o Sp \o In({"=", ":"}),
    BOL \o Lit("#"),
    BOL \o Lit("//"),
    BOL \o Lit("/*") >>

startsWithCompleteStatement(code) ==
    SomeRe(completeStatementStartPatterns, Trim(SplitLines(Trim(code))[1]))

incompleteStructures == <<
    KwW("class") \o Star(Dot) \o Lit(":") \o Sp \o EOL,
    KwW("def") \o Star(Dot) \o Lit(":") \o Sp \o EOL,
    KwW("function") \o Star(Dot) \o Lit("{") \o Sp \o EOL,
    Lit("if") \o Sp \o Lit("(") \o Star(Dot) \o Lit(")") \o Sp \o Lit("{") \o Sp \o EOL,
    Lit("for") \o Sp \o Lit("(") \o Star(Dot) \o Lit(")") \o Sp \o Lit("{") \o Sp \o EOL,
    Lit("while") \o Sp \o Lit("(") \o Star(Dot) \o Lit(")") \o Sp \o Lit("{") \o Sp \o EOL,
    Lit("try") \o Sp \o Lit("{") \o Sp \o EOL,
    Lit("catch") \o Sp \o Lit("(") \o Star(Dot) \o Lit(")") \o Sp \o Lit("{") \o Sp \o EOL,
    Lit("else") \o Sp \o Lit("{") \o Sp \o EOL,
    Lit("{") \o Sp \o EOL >>

continuationStructures == <<
    Starts(Lit("}")), Starts(Lit("else")), Starts(Lit("elif")), Starts(Lit("except")),
    Starts(Lit("finally")), Starts(Lit("catch")),
    Starts(IdentStart \o IdentRest \o Sp \o In({"=", ":"})) >>

isContinuousCodeStructure(code1, code2) ==
    \/ SomeRe(incompleteStructures, code1)            \* hasIncompleteStructure
    \/ SomeRe(continuationStructures, code2)          \* hasContinuation

\* the separator chosen between the two cleaned bodies (lines 866-878)
Separator(endsComplete, startsComplete, cleanCode1) ==
    IF endsComplete /\ startsComplete THEN Chars("\n\n")
    ELSE IF ~endsComplete \/ ~startsComplete
         THEN (IF EndsWith(cleanCode1, Chars("\n")) THEN <<>> ELSE Chars("\n"))
         ELSE Chars("\n")

\* mergeCodeContent on the cleaned bodies (lines 857-882)
MergeCleaned(cleanCode1, cleanCode2) ==
    IF Trim(cleanCode1) = <<>> THEN cleanCode2
    ELSE IF Trim(cleanCode2) = <<>> THEN cleanCode1
    ELSE ReplaceFirst(ReTrailingNewlines, cleanCode1, F0, LAMBDA mt : <<>>)
           \o Separator(endsWithCompleteStatement(cleanCode1),
                        startsWithCompleteStatement(cleanCode2), cleanCode1)
           \o ReplaceFirst(ReLeadingNewlines, cleanCode2, F0, LAMBDA mt : <<>>)

mergeCodeContent(code1, code2) ==
    MergeCleaned(cleanCodeContent(code1), cleanCodeContent(code2))

MaxGap == 50
\* /\s+/g
ReSpaces == Plus(Space)

CleanBetween(betweenContent) ==
    Trim(ReplaceAll(ReSpaces, Subst(StripTags(betweenContent), "&nbsp;", " "), F0,
                    LAMBDA mt : Chars(" ")))

\* shouldMergeCodeBlocks on the cleaned gap and the cleaned, trimmed bodies
\* (lines 736-774)
ShouldMergeCleaned(cleanBetween, cleanCode1, cleanCode2) ==
    IF Len(cleanBetween) <= MaxGap THEN TRUE
    ELSE IF isPageBreakContent(cleanBetween) THEN TRUE
    ELSE IF cleanCode1 = <<>> \/ cleanCode2 = <<>> THEN FALSE
    ELSE IF hasCodeContinuity(cleanCode1, cleanCode2) THEN TRUE
    ELSE IF isSameProgrammingLanguage(cleanCode1, cleanCode2)
            /\ hasSimilarIndentation(cleanCode1, cleanCode2) THEN TRUE
    ELSE isContinuousCodeStructure(cleanCode1, cleanCode2)

shouldMergeCodeBlocks(betweenContent, code1, code2) ==
    ShouldMergeCleaned(CleanBetween(betweenContent), Trim(cleanCodeContent(code1)),
                       Trim(cleanCodeContent(code2)))

\* /<pre[^>]*><code[^>]*>(.*?)<\/code><\/pre>/gis
codeBlockPattern ==
    Lit("<pre") \o Star(NotGt) \o Lit("><code") \o Star(NotGt) \o Lit(">")
      \o Cap(LazyStar(DotAll)) \o Lit("</code></pre>")

PreOpen == Chars("<pre><code>")
PreClose == Chars("</code></pre>")

(***************************************************************************)
(* WordConverter: the Markdown renderer                                    *)
(***************************************************************************)
Digit1to6 == In({"1", "2", "3", "4", "5", "6"})
DigitVal(c) == CHOOSE n \in 0..9 : <<c>> = SubSeq(Chars("0123456789"), n + 1, n + 1)
NL == Chars("\n")
NL2 == Chars("\n\n")
BT == "U+0060"                                              \* the backtick character
Fence == <<BT, BT, BT>>

\* <NAME[^>]*>(.*?)</NAME>, with . as given
Element(name, dot) ==
    Lit("<") \o Lit(name) \o Star(NotGt) \o Lit(">") \o Cap(LazyStar(dot))
      \o Lit("</") \o Lit(name) \o Lit(">")

\* /<h([1-6])[^>]*>(.*?)<\/h[1-6]>/gi
ReHeading ==
    Lit("<h") \o Cap(Digit1to6) \o Star(NotGt) \o Lit(">") \o Cap(LazyStar(Dot))
      \o Lit("</h") \o Digit1to6 \o Lit(">")
\* /<table[^>]*>(.*?)<\/table>/gis
ReTable == Element("table", DotAll)
\* /<thead[^>]*>(.*?)<\/thead>/is, /<tbody[^>]*>(.*?)<\/tbody>/is
ReThead == Element("thead", DotAll)
ReTbody == Element("tbody", DotAll)
\* /<tr[^>]*>(.*?)<\/tr>/gis
ReTr == Element("tr", DotAll)
\* /<t[hd][^>]*>(.*?)<\/t[hd]>/gis
ReCell ==
    Lit("<t") \o In({"h", "d"}) \o Star(NotGt) \o Lit(">") \o Cap(LazyStar(DotAll))
      \o Lit("</t") \o In({"h", "d"}) \o Lit(">")
\* /<pre[^>]*><code[^>]*class="language-([^"]*)"[^>]*>(.*?)<\/code><\/pre>/gis
ReTaggedCodeBlock ==
    Lit("<pre") \o Star(NotGt) \o Lit("><code") \o Star(NotGt) \o Lit("class=\"language-")
      \o Cap(Star(NotQuote)) \o Lit("\"") \o Star(NotGt) \o Lit(">")
      \o Cap(LazyStar(DotAll)) \o Lit("</code></pre>")
\* /<code[^>]*>(.*?)<\/code>/gi
ReInlineCode == Element("code", Dot)
\* /<ul[^>]*>(.*?)<\/ul>/gis, /<ol[^>]*>(.*?)<\/ol>/gis, /<li[^>]*>(.*?)<\/li>/gis
ReUl == Element("ul", DotAll)
ReOl == Element("ol", DotAll)
ReLi == Element("li", DotAll)
\* /<a[^>]*href="([^"]*)"[^>]*>(.*?)<\/a>/gi
ReLink ==
    Lit("<a") \o Star(NotGt) \o Lit("href=\"") \o Cap(Star(NotQuote)) \o Lit("\"")
      \o Star(NotGt) \o Lit(">") \o Cap(LazyStar(Dot)) \o Lit("</a>")
\* /<p[^>]*>(.*?)<\/p>/gi ... /<i[^>]*>(.*?)<\/i>/gi
ReP == Element("p", Dot)
ReStrong == Element("strong", Dot)
ReB == Element("b", Dot)
ReEm == Element("em", Dot)
ReI == Element("i", Dot)
\* /<br\s*\/?>/gi
ReBr == Lit("<br") \o Sp \o Opt(Lit("/")) \o Lit(">")
\* /\n\n\n+/g
ReNewlines3 == Lit("\n\n") \o Plus(Lit("\n"))

\* cell.replace(/<t[hd][^>]*>(.*?)<\/t[hd]>/is, '$1').replace(/<[^>]+>/g, '')
\*     .replace(/\n/g, ' ').trim()
InnerText(re, item) ==
    Trim(Subst(StripTags(ReplaceFirst(re, item, FI, LAMBDA mt : mt.g[1])), "\n", " "))

RECURSIVE Join(_, _)
Join(ss, sep) ==
    IF ss = <<>> THEN <<>>
    ELSE IF Len(ss) = 1 THEN ss[1]
    ELSE ss[1] \o sep \o Join(Tail(ss), sep)

\* tableContent: the head and body sections if there is one, else the whole table
SectionsOf(tableHtml, headerMatch, bodyMatch) ==
    IF headerMatch # <<>> \/ bodyMatch # <<>>
    THEN (IF headerMatch # <<>> THEN headerMatch[1].g[1] ELSE <<>>)
           \o (IF bodyMatch # <<>> THEN bodyMatch[1].g[1] ELSE <<>>)
    ELSE tableHtml

TableContent(tableHtml) ==
    SectionsOf(tableHtml, Search(ReThead, tableHtml, 1, FI), Search(ReTbody, tableHtml, 1, FI))

\* cellMatches.map(cell => ...)
CellTexts(cellMatches) ==
    [c \in 1..Len(cellMatches) |-> InnerText(ReCell, cellMatches[c].w)]

RowCells(rowMatches) ==
    [r \in 1..Len(rowMatches) |-> CellTexts(MatchAll(ReCell, rowMatches[r].w, FI))]

\* the cells of every row that has cells
TableRows(tableContent) ==
    SelectSeq(RowCells(MatchAll(ReTr, tableContent, FI)), LAMBDA cells : cells # <<>>)

MdRow(cells) == Chars("| ") \o Join(cells, Chars(" | ")) \o Chars(" |")

\* the lines pushed to rows: the first row with cells is followed by the rule
MdLines(cellRows) ==
    [r \in 1..Len(cellRows) |->
       IF r = 1
       THEN MdRow(cellRows[r]) \o NL \o MdRow([c \in 1..Len(cellRows[r]) |-> Chars("---")])
       ELSE MdRow(cellRows[r])]

MdTable(tableContent) ==
    IF MatchAll(ReTr, tableContent, FI) = <<>> THEN NL
    ELSE NL \o Join(MdLines(TableRows(tableContent)), NL) \o NL2

convertTableToMarkdown(tableHtml) == MdTable(TableContent(tableHtml))

RECURSIVE Decimal(_)
\* `${n}`
Decimal(n) ==
    IF n < 10 THEN SubSeq(Chars("0123456789"), n + 1, n + 1)
    ELSE Decimal(n \div 10) \o Decimal(n % 10)

ListItems(itemMatches, ordered) ==
    [k \in 1..Len(itemMatches) |->
       (IF ordered THEN Decimal(k) \o Chars(". ") ELSE Chars("- "))
         \o InnerText(ReLi, itemMatches[k].w)]

ListOf(itemMatches, ordered) ==
    IF itemMatches = <<>> THEN <<>> ELSE NL \o Join(ListItems(itemMatches, ordered), NL) \o NL2

convertListToMarkdown(listHtml, ordered) == ListOf(MatchAll(ReLi, listHtml, FI), ordered)

\* a fenced block with the given tag, or nothing when the code is blank
FencedBlock(language, cleanCode) ==
    IF Trim(cleanCode) = <<>> THEN <<>>
    ELSE Fence \o language \o NL \o cleanCode \o NL \o Fence \o NL2

\* the callback of the unlabelled code block rule (lines 315-326)
DetectedBlock(cleanCode) == FencedBlock(Chars(detectCodeLanguage(cleanCode)), cleanCode)

Wrap(s, re, fl, pre, post) ==
    ReplaceAll(re, s, fl, LAMBDA mt : pre \o mt.g[1] \o post)

\* the rules of htmlToMarkdown, in the order of the source
Headings(md) ==
    ReplaceAll(ReHeading, md, FI, LAMBDA mt :
        Repeat(Chars("#"), DigitVal(mt.g[1][1])) \o Chars(" ") \o Trim(StripTags(mt.g[2])) \o NL2)
Tables(md) == ReplaceAll(ReTable, md, FI, LAMBDA mt : convertTableToMarkdown(mt.g[1]))
TaggedCodeBlocks(md) ==
    ReplaceAll(ReTaggedCodeBlock, md, FI, LAMBDA mt :
        FencedBlock(mt.g[1], cleanCodeContent(mt.g[2])))
PlainCodeBlocks(md) ==
    ReplaceAll(codeBlockPattern, md, FI, LAMBDA mt : DetectedBlock(cleanCodeContent(mt.g[1])))
InlineCode(md) == Wrap(md, ReInlineCode, FI, <<BT>>, <<BT>>)
Lists(md) ==
    ReplaceAll(ReOl,
      ReplaceAll(ReUl, md, FI, LAMBDA mt : convertListToMarkdown(mt.g[1], FALSE)),
    FI, LAMBDA mt : convertListToMarkdown(mt.g[1], TRUE))
Links(md) ==
    ReplaceAll(ReLink, md, FI, LAMBDA mt :
        Chars("[") \o mt.g[2] \o Chars("](") \o mt.g[1] \o Chars(")"))
Paragraphs(md) == Wrap(md, ReP, FI, <<>>, NL2)
Emphasis(md) ==
    Wrap(Wrap(Wrap(Wrap(md, ReStrong, FI, Chars("**"), Chars("**")),
                   ReB, FI, Chars("**"), Chars("**")),
              ReEm, FI, Chars("*"), Chars("*")),
         ReI, FI, Chars("*"), Chars("*"))
LineBreaks(md) == ReplaceAll(ReBr, md, FI, LAMBDA mt : NL)
Entities(md) ==
    Subst(Subst(Subst(Subst(Subst(Subst(md,
      "&nbsp;", " "), "&amp;", "&"), "&lt;", "<"), "&gt;", ">"), "&quot;", "\""), "&#39;", "'")
BlankLines(md) == ReplaceAll(ReNewlines3, md, F0, LAMBDA mt : NL2)

\* htmlToMarkdown after the merge pre-pass and processImages (lines 293-369)
RenderMarkdown(md0) ==
    Trim(BlankLines(Entities(StripTags(LineBreaks(Emphasis(Paragraphs(Links(Lists(
      InlineCode(PlainCodeBlocks(TaggedCodeBlocks(Tables(Headings(md0))))))))))))))

(***************************************************************************)
(* WordConverter: the plain-text renderer                                  *)
(***************************************************************************)
\* the box-drawing characters, each one element "U+XXXX"
BoxH == "U+2500"
BoxV == "U+2502"
BoxTop == <<"U+250C", "U+252C", "U+2510">>
BoxRule == <<"U+251C", "U+253C", "U+2524">>
BoxBottom == <<"U+2514", "U+2534", "U+2518">>
TableWord == <<"U+8868", "U+683C">>
EmptyTableWords == <<"U+8868", "U+683C", "U+5185", "U+5BB9", "U+4E3A", "U+7A7A">>
CodeBlockWord == <<"U+4EE3", "U+7801", "U+5757">>
Bullet == "U+2022"

\* the width that counts every character as one column
getDisplayWidthNarrow(str) == Len(str)

\* one column for a character, two for a CJK ideograph
getDisplayWidth(str) == Len(str) + Cardinality({j \in 1..Len(str) : str[j] \in CJK})

Max(S) == CHOOSE x \in S : \A y \in S : x >= y
ColumnCount(cellRows) == Max({0} \cup {Len(cellRows[r]) : r \in 1..Len(cellRows)})
\* maxWidths after the first pass over the rows
MaxWidths(cellRows) ==
    [c \in 1..ColumnCount(cellRows) |->
       Max({0} \cup {getDisplayWidth(cellRows[r][c]) :
                       r \in {q \in 1..Len(cellRows) : Len(cellRows[q]) >= c}})]

\* a border line: a run of w + 2 rules for every column, joined by the tee
Border(ends, maxWidths) ==
    <<ends[1]>>
      \o Join([c \in 1..Len(maxWidths) |-> Repeat(<<BoxH>>, maxWidths[c] + 2)], <<ends[2]>>)
      \o <<ends[3]>>

\* cells.map(...): every cell of the row padded to the width of its column
PaddedCells(cells, maxWidths) ==
    [c \in 1..Len(cells) |->
       Chars(" ") \o cells[c]
         \o Repeat(Chars(" "), maxWidths[c] - getDisplayWidth(cells[c]) + 1)]
RowLine(cells, maxWidths) == <<BoxV>> \o Join(PaddedCells(cells, maxWidths), <<BoxV>>) \o <<BoxV>>

\* the lines pushed for the rows: a rule follows the first of several rows
BodyLines(cellRows, maxWidths) ==
    [r \in 1..Len(cellRows) |->
       IF r = 1 /\ Len(cellRows) > 1
       THEN RowLine(cellRows[r], maxWidths) \o NL \o Border(BoxRule, maxWidths)
       ELSE RowLine(cellRows[r], maxWidths)]

TextLines(cellRows, maxWidths) ==
    <<NL \o TableWord \o Chars(":"), Border(BoxTop, maxWidths)>>
      \o BodyLines(cellRows, maxWidths)
      \o <<Border(BoxBottom, maxWidths)>>

TextTable(tableContent) ==
    IF MatchAll(ReTr, tableContent, FI) = <<>> THEN NL \o EmptyTableWords \o NL2
    ELSE Join(TextLines(TableRows(tableContent), MaxWidths(TableRows(tableContent))), NL) \o NL2

convertTableToText(tableHtml) == TextTable(TableContent(tableHtml))

TextItems(itemMatches, ordered) ==
    [k \in 1..Len(itemMatches) |->
       Chars("  ") \o (IF ordered THEN Decimal(k) \o Chars(". ") ELSE <<Bullet, " ">>)
         \o InnerText(ReLi, itemMatches[k].w)]
TextListOf(itemMatches, ordered) ==
    IF itemMatches = <<>> THEN <<>> ELSE NL \o Join(TextItems(itemMatches, ordered), NL) \o NL2
convertListToText(listHtml, ordered) == TextListOf(MatchAll(ReLi, listHtml, FI), ordered)

DecorationCap == 50
RuleWidth == 40
\* the heading callback: the text and, for levels 1 and 2, a line of = or -
Underline(levelNum, cleanContent) ==
    IF levelNum \in {1, 2}
    THEN NL \o Repeat(IF levelNum = 1 THEN Chars("=") ELSE Chars("-"),
                      Min(Len(cleanContent), DecorationCap))
    ELSE <<>>
TextHeading(levelNum, cleanContent) == NL2 \o cleanContent \o Underline(levelNum, cleanContent) \o NL
TextCodeBlock(cleanCode) ==
    NL \o CodeBlockWord \o Chars(":") \o NL \o Repeat(<<BoxH>>, RuleWidth) \o NL
      \o Trim(cleanCode) \o NL \o Repeat(<<BoxH>>, RuleWidth) \o NL2
\* the entity replacements of the code block callback, the first one innermost
TextCodeEntities(s) ==
    Subst(Subst(Subst(Subst(Subst(s,
      "&lt;", "<"), "&gt;", ">"), "&amp;", "&"), "&quot;", "\""), "&#39;", "'")

\* the rules of htmlToText, in the order of the source
TextHeadings(text) ==
    ReplaceAll(ReHeading, text, FI, LAMBDA mt :
        TextHeading(DigitVal(mt.g[1][1]), Trim(StripTags(mt.g[2]))))
TextTables(text) == ReplaceAll(ReTable, text, FI, LAMBDA mt : convertTableToText(mt.g[1]))
TextCodeBlocks(text) ==
    ReplaceAll(codeBlockPattern, text, FI, LAMBDA mt :
        TextCodeBlock(TextCodeEntities(StripTags(mt.g[1]))))
TextLists(text) ==
    ReplaceAll(ReOl,
      ReplaceAll(ReUl, text, FI, LAMBDA mt : convertListToText(mt.g[1], FALSE)),
    FI, LAMBDA mt : convertListToText(mt.g[1], TRUE))

htmlToText(html0) ==
    Trim(BlankLines(Entities(StripTags(LineBreaks(Emphasis(Paragraphs(TextLists(
      InlineCode(TextCodeBlocks(TextTables(TextHeadings(html0))))))))))))

(***************************************************************************)
(* WordConverter: embedded images                                          *)
(***************************************************************************)
\* /<img[^>]*src="([^"]*)"[^>]*alt="([^"]*)"[^>]*>/gi
ReImgAlt ==
    Lit("<img") \o Star(NotGt) \o Lit("src=\"") \o Cap(Star(NotQuote)) \o Lit("\"")
      \o Star(NotGt) \o Lit("alt=\"") \o Cap(Star(NotQuote)) \o Lit("\"")
      \o Star(NotGt) \o Lit(">")
\* /<img[^>]*src="([^"]*)"[^>]*>/gi
ReImg ==
    Lit("<img") \o Star(NotGt) \o Lit("src=\"") \o Cap(Star(NotQuote)) \o Lit("\"")
      \o Star(NotGt) \o Lit(">")
\* /^data:image\/([a-zA-Z]+);base64,(.+)$/
ReDataUrl ==
    BOL \o Lit("data:image/") \o Cap(Plus(In(LowerSet \cup UpperSet)))
      \o Lit(";base64,") \o Cap(Plus(Dot)) \o EOL

PictureWord == <<"U+56FE", "U+7247">>                     \* the default alt text
DataPrefix == Chars("data:image/")

\* String.replace with a global regex whose callback also reads the number of
\* the match: R(j, mt) is the replacement of the j-th match mt
SpliceEach(ms, s, R(_, _)) ==
    Concat([j \in 1..Len(ms) |->
              SubSeq(s, IF j = 1 THEN 1 ELSE ms[j - 1].e, ms[j].i - 1) \o R(j, ms[j])])
      \o SubSeq(s, IF ms = <<>> THEN 1 ELSE ms[Len(ms)].e, Len(s))

ReplaceEach(re, s, fl, R(_, _)) == On(s, LAMBDA x : SpliceEach(MatchAll(re, x, fl), x, R))

\* extractBase64Image: the file name chosen when Date.now() returns stamp
FilenameOf(r, stamp) ==
    IF r = <<>> THEN Chars("image.png")
    ELSE Chars("image_") \o Decimal(stamp) \o Chars(".") \o r[1].g[1]

imageFilename(base64Data, stamp) == FilenameOf(Search(ReDataUrl, base64Data, 1, F0), stamp)

\* extractBase64Image reaches writeFileSync
imageIsWritten(base64Data) == Test(ReDataUrl, base64Data, F0)

ImageRef(alt, target) ==
    Chars("![") \o (IF alt = <<>> THEN PictureWord ELSE alt) \o Chars("](") \o target
      \o Chars(")\n\n")

\* the replacement of an image whose source is src, the clock reading stamp
ImageMarkdown(alt, src, stamp) ==
    IF StartsWith(src, DataPrefix)
    THEN ImageRef(alt, Chars("./images/") \o imageFilename(src, stamp))
    ELSE ImageRef(alt, src)

\* the files written for the matches ms, which are the calls from+1.. of the run
SavedBy(ms, from, stamp, okW) ==
    {imageFilename(ms[j].g[1], stamp[from + j]) :
       j \in {q \in 1..Len(ms) : /\ StartsWith(ms[q].g[1], DataPrefix)
                                 /\ imageIsWritten(ms[q].g[1])
                                 /\ okW[from + q]}}

\* the first pass (lines 378-384): images with an alt attribute
AltImages(h, stamp) ==
    ReplaceEach(ReImgAlt, h, FI, LAMBDA j, mt : ImageMarkdown(mt.g[2], mt.g[1], stamp[j]))

\* the second pass (lines 387-393) on the result h1 of the first, which made
\* k1 calls
PlainImages(h1, k1, stamp) ==
    ReplaceEach(ReImg, h1, FI, LAMBDA j, mt : ImageMarkdown(PictureWord, mt.g[1], stamp[k1 + j]))

ImagePasses(h, h1, k1, stamp, okW) ==
    [html |-> PlainImages(h1, k1, stamp),
     files |-> SavedBy(MatchAll(ReImgAlt, h, FI), 0, stamp, okW)
                 \cup SavedBy(MatchAll(ReImg, h1, FI), k1, stamp, okW)]

\* The two passes of processImages over h.  The j-th callback of the run reads
\* the clock value stamp[j]; its writeFileSync succeeds iff okW[j].  The result
\* is the rewritten HTML and the set of files present in the images directory.
processImages(h, stamp, okW) ==
    ImagePasses(h, AltImages(h, stamp), Len(MatchAll(ReImgAlt, h, FI)), stamp, okW)

(***************************************************************************)
(* WordConverter.htmlToMarkdown as a state machine                         *)
(***************************************************************************)
\* Array.from(html.matchAll(codeBlockPattern)): index (0-based), match[0], match[1]
BlocksOf(ms) ==
    [j \in 1..Len(ms) |-> [index |-> ms[j].i - 1, whole |-> ms[j].w, code |-> ms[j].g[1]]]
CodeBlocks(h) == BlocksOf(MatchAll(codeBlockPattern, h, FI))

\* String.substring(a, b) and String.substring(a)
Substring(s, a, b) == SubSeq(s, a + 1, b)
SubstringFrom(s, a) == SubSeq(s, a + 1, Len(s))

Block(body) == PreOpen \o body \o PreClose
Para(text) == Chars("<p>") \o text \o Chars("</p>")

LongText == Chars("This paragraph of the report is not related to the listings.")
FirstBodies == {Chars("if (x) {"), Chars("System.out.println(1);\nreturn 0;"), Chars("a&lt;b&gt;c"),
                Chars("def foo():\n    pass"), <<>>}
SecondBodies == {Chars("  return 1;"), Chars("import os"), Chars("#!/bin/sh\nexit 0"),
                 Chars("SELECT a FROM t"), Chars("d")}
Gaps == {<<>>, Para(<<>>), Para(Chars("see <i>below</i>")), Para(LongText),
         Para(LongText \o Chars(" Page 2"))}
TwoBlockDocs == {Block(b1) \o g \o Block(b2) : b1 \in FirstBodies, g \in Gaps, b2 \in SecondBodies}
\* <hN>title</hN><p>lead<TAG>bold</TAG></p>
HeadingDoc(n, title, lead, tag, bold) ==
    Chars("<h") \o Decimal(n) \o Chars(">") \o title \o Chars("</h") \o Decimal(n) \o Chars(">")
      \o Para(lead \o Chars("<") \o tag \o Chars(">") \o bold
                \o Chars("</") \o tag \o Chars(">"))
Levels == {1, 2, 6}
Titles == {Chars("Title"), Chars("A <i>b</i>")}
Leads == {Chars("Hello "), Chars("a<br />b ")}
BoldTags == {Chars("b"), Chars("strong")}
HeadingDocs ==
    {HeadingDoc(n, t, x, g, Chars("world")) : n \in Levels, t \in Titles, x \in Leads, g \in BoldTags}
CodeSamples == {
    Chars("def foo():\n    pass"), Chars("x = 1"), Chars("function f() { return 1; }"),
    Chars("public class A { }"), Chars("import os\nconst a = 1;"), Chars("using System;"),
    Chars("a { color: red; }"), Chars("&lt;html&gt;"), Chars("select 1"),
    Chars("echo hi"), Chars("[1, 2]"), Chars("System.out.println(1);") }
ProseDocs == HeadingDocs \cup {Block(b) : b \in CodeSamples}
Png == Chars("data:image/png;base64,AAAA")
OtherPng == Chars("data:image/png;base64,BBBB")
ImageDocs == {
    Chars("<p>a</p><img src=\"") \o Png \o Chars("\" alt=\"logo\">"),
    Chars("<img src=\"") \o Png \o Chars("\"><img src=\"") \o Png \o Chars("\" alt=\"x\">"),
    Chars("<img src=\"http://h/i.png\" alt=\"\"><p>b</p>"),
    Chars("<img src=\"data:image/;base64,\">"),
    Chars("<img src=\"") \o Png \o Chars("\"><p>c</p><img src=\"") \o OtherPng \o Chars("\">") }
\* code that shows HTML markup, as a document about HTML holds it
MarkupDocs == {
    Block(Chars("a&lt;/code&gt;&lt;/pre&gt;&lt;pre&gt;&lt;code&gt;b")) \o Block(Chars("c")),
    Block(Chars("x")) \o Para(Chars("use &lt;pre&gt;")) \o Block(Chars("&lt;p&gt;y&lt;/p&gt;")) }
\* a code block that carries class="language-X"
Tagged(language, body) ==
    Chars("<pre><code class=\"language-") \o language \o Chars("\">") \o body \o PreClose
TaggedDocs == {
    Tagged(Chars("js"), Chars("let a = 1;")),
    Tagged(Chars("js"), Chars("let a = 1;")) \o Block(Chars("let b = 2;")),
    Block(Chars("x = 1")) \o Para(LongText) \o Tagged(Chars("sql"), Chars("select 1")) }
Link(url, text) == Chars("<a href=\"") \o url \o Chars("\">") \o text \o Chars("</a>")
LinkUrls == {Chars("http://x.y/z"), Chars("u")}
LinkTexts == {Chars("the site"), Chars("t")}
LinkDocs ==
    {Para(Chars("see ") \o Link(u, t)) : u \in LinkUrls, t \in LinkTexts}
      \cup {Link(u, t) : u \in LinkUrls, t \in LinkTexts}
\* bodies that cleanCodeContent and trim() reduce to nothing
BlankBodies == {<<>>, Chars(" \n "), Chars("<span></span>")}
BlankCodeDocs ==
    {Block(b) : b \in BlankBodies}
      \cup {Para(Chars("a")) \o Block(b) \o Para(Chars("b")) : b \in BlankBodies}
\* a second block whose first line is indented with non-breaking spaces
Nbsp(n) == Repeat(Chars("&nbsp;"), n)
IndentedDocs ==
    {Block(Chars("import sys")) \o Para(LongText)
       \o Block(Nbsp(n) \o Chars("# c\nimport os")) : n \in {0, 6}}
      \cup {Block(Nbsp(6) \o Chars("@a")) \o Para(LongText) \o Block(Chars("# c\nimport os"))}
ThreeBlockDocs == {
    Block(Chars("import sys")) \o Para(LongText) \o Block(Chars("@media"))
      \o Block(Chars("import os")),
    Block(Chars("a = 1;")) \o Block(Chars("b = 2;")) \o Block(Chars("c = 3;")),
    Block(Chars("import sys")) \o Para(LongText) \o Block(Chars("# note")) \o Para(LongText)
      \o Block(Chars("#!/bin/sh")) }
Docs == TwoBlockDocs \cup ProseDocs \cup ImageDocs \cup MarkupDocs \cup TaggedDocs
          \cup LinkDocs \cup BlankCodeDocs \cup IndentedDocs \cup ThreeBlockDocs

MaxIters == 6
MaxStamp == 2
\* the readings of Date.now() over n calls: a clock never runs backwards
Stamps(n) == {f \in [1..n -> 1..MaxStamp] : \A j \in 1..(n - 1) : f[j] <= f[j + 1]}

Init ==
    /\ pc = "start" /\ html \in Docs
    /\ processedHtml = <<>> /\ matches = <<>>
    /\ i = 0 /\ mergeCount = 0 /\ iters = 0 /\ out = <<>> /\ images = {}
    /\ job = <<>> /\ files = <<>> /\ result = <<>>

\* mergeFragmentedCodeBlocks up to the loop (lines 630-650)
Begin ==
    /\ pc = "start"
    /\ processedHtml' = removePageBreaks(html)
    /\ matches' = CodeBlocks(processedHtml')
    /\ pc' = IF Len(matches') <= 1 THEN "merged" ELSE "loop"
    /\ i' = 0 /\ mergeCount' = 0
    /\ UNCHANGED <<html, iters, out, images, job, files, result>>

BetweenContent ==
    Substring(processedHtml, matches[i + 1].index + Len(matches[i + 1].whole),
              matches[i + 2].index)

\* beforeFirst + mergedBlock + afterSecond (lines 670-677)
MergedHtml(h, currentMatch, nextMatch) ==
    Substring(h, 0, currentMatch.index)
      \o PreOpen \o mergeCodeContent(currentMatch.code, nextMatch.code) \o PreClose
      \o SubstringFrom(h, nextMatch.index + Len(nextMatch.whole))

\* a merging iteration that keeps the match list of the text before the merge
MergePairStale ==
    /\ pc = "loop" /\ i < Len(matches) - 1 /\ iters < MaxIters
    /\ shouldMergeCodeBlocks(BetweenContent, matches[i + 1].code, matches[i + 2].code)
    /\ processedHtml' = MergedHtml(processedHtml, matches[i + 1], matches[i + 2])
    /\ mergeCount' = mergeCount + 1
    /\ iters' = iters + 1
    /\ UNCHANGED <<pc, html, matches, i, out, images, job, files, result>>

\* one iteration of the loop that merges the blocks i and i+1 (lines 666-682)
MergePair ==
    /\ pc = "loop" /\ i < Len(matches) - 1 /\ iters < MaxIters
    /\ shouldMergeCodeBlocks(BetweenContent, matches[i + 1].code, matches[i + 2].code)
    /\ processedHtml' = MergedHtml(processedHtml, matches[i + 1], matches[i + 2])
    /\ matches' = CodeBlocks(processedHtml')
    /\ mergeCount' = mergeCount + 1
    /\ iters' = iters + 1
    /\ UNCHANGED <<pc, html, i, out, images, job, files, result>>

\* one iteration of the loop that leaves the blocks i and i+1 apart (line 684)
SkipPair ==
    /\ pc = "loop" /\ i < Len(matches) - 1 /\ iters < MaxIters
    /\ ~shouldMergeCodeBlocks(BetweenContent, matches[i + 1].code, matches[i + 2].code)
    /\ i' = i + 1
    /\ iters' = iters + 1
    /\ UNCHANGED <<pc, html, processedHtml, matches, mergeCount, out, images, job, files, result>>

\* the loop condition fails (line 651): mergeFragmentedCodeBlocks returns
LoopExit ==
    /\ pc = "loop" /\ ~(i < Len(matches) - 1)
    /\ pc' = "merged"
    /\ UNCHANGED <<html, processedHtml, matches, i, mergeCount, iters, out, images, job, files, result>>

\* the images the two passes of processImages will find in h
ImageCount(h) == Len(MatchAll(ReImg, h, FI))

\* processImages and the rendering rules (lines 291-369), the images directory
\* being creatable
Render ==
    /\ pc = "merged"
    /\ \E stamp \in Stamps(ImageCount(processedHtml)),
          okW \in [1..ImageCount(processedHtml) -> BOOLEAN] :
          \E r \in {processImages(processedHtml, stamp, okW)} :
              /\ out' = RenderMarkdown(r.html)
              /\ images' = r.files
    /\ pc' = "done"
    /\ UNCHANGED <<html, processedHtml, matches, i, mergeCount, iters, job, files, result>>

\* fs.ensureDirSync throws (line 375): htmlToMarkdown throws with it
RenderThrows ==
    /\ pc = "merged"
    /\ pc' = "threw"
    /\ UNCHANGED <<html, processedHtml, matches, i, mergeCount, iters, out, images, job, files, result>>

Next == Begin \/ MergePair \/ SkipPair \/ LoopExit \/ Render \/ RenderThrows
Spec == Init /\ [][Next]_vars

(***************************************************************************)
(* The pagination normalizer run on its own, once and once more            *)
(***************************************************************************)
NormOpenings == {<<>>, Chars("a "), Chars("<p>"), Chars("<div>"), Chars("x\n\n")}
NormBodies ==
    {<<>>, Chars("x"), Chars("<!--PageBreak-->"), Chars("<!-- pagebreak -->"),
     Chars("<p></p>"), Chars("<div> </div>"), Chars("\n \n"),
     Chars("<br style=\"page-break-before:always\">"),
     Chars("<span style=\"mso-tab-count:1\">t</span>")}
NormClosings == {<<>>, Chars("  b"), Chars("</p>"), Chars("</div>"), Chars("\n\ny")}
NormDocs == {a \o b \o c : a \in NormOpenings, b \in NormBodies, c \in NormClosings}

InitNorm ==
    /\ pc = "normalize" /\ html \in NormDocs
    /\ processedHtml = <<>> /\ matches = <<>>
    /\ i = 0 /\ mergeCount = 0 /\ iters = 0 /\ out = <<>> /\ images = {}
    /\ job = <<>> /\ files = <<>> /\ result = <<>>

\* removePageBreaks on the document
Normalize ==
    /\ pc = "normalize"
    /\ processedHtml' = removePageBreaks(html)
    /\ pc' = "normalized"
    /\ UNCHANGED <<html, matches, i, mergeCount, iters, out, images, job, files, result>>

\* removePageBreaks on its own output
NormalizeAgain ==
    /\ pc = "normalized"
    /\ out' = removePageBreaks(processedHtml)
    /\ pc' = "normalized twice"
    /\ UNCHANGED <<html, processedHtml, matches, i, mergeCount, iters, images, job, files, result>>

NextNorm == Normalize \/ NormalizeAgain
SpecNorm == InitNorm /\ [][NextNorm]_vars

(***************************************************************************)
(* The plain-text renderer on documents that hold a table                  *)
(***************************************************************************)
Cell(text) == Chars("<td>") \o text \o Chars("</td>")
Row(cells) == Chars("<tr>") \o Concat([c \in 1..Len(cells) |-> Cell(cells[c])]) \o Chars("</tr>")
TableOf(rows) == Chars("<table>") \o Concat([r \in 1..Len(rows) |-> Row(rows[r])]) \o Chars("</table>")
CellRows ==
    {<<Chars("a")>>, <<Chars("a"), Chars("bb")>>, <<<<"U+540D", "U+79F0">>, Chars("x")>>,
     <<Chars("a"), Chars("b"), Chars("c")>>, <<<<>>, Chars("long")>>, <<>>}
MaxRows == 2
TableShapes == UNION {[1..n -> CellRows] : n \in 0..MaxRows}
\* the documents that hold the table of shape t
TableDocsOf(t) == {TableOf(t), Chars("<h1>T</h1>") \o TableOf(t) \o Chars("<p>end</p>")}
TableDocs == UNION {TableDocsOf(t) : t \in TableShapes}

\* tables without a <tr>, and tables whose <tr> hold no cell
RowlessTables == {Chars("<table></table>"), Chars("<table><tbody></tbody></table>"),
                  Chars("<table>\n</table>")}
CellLessTables == {Chars("<table><tr></tr></table>"),
                   Chars("<table><tr></tr><tr> </tr></table>")}
EmptyTableDocs ==
    {t : t \in RowlessTables \cup CellLessTables}
      \cup {Para(Chars("a")) \o t \o Para(Chars("b")) : t \in RowlessTables \cup CellLessTables}
TextDocs == LinkDocs \cup BlankCodeDocs \cup EmptyTableDocs \cup {Block(b) : b \in CodeSamples}

InitText ==
    /\ \/ pc = "text" /\ job \in TableShapes /\ html \in TableDocsOf(job)
       \/ pc = "prose" /\ job = <<>> /\ html \in TextDocs
    /\ processedHtml = <<>> /\ matches = <<>>
    /\ i = 0 /\ mergeCount = 0 /\ iters = 0 /\ out = <<>> /\ images = {}
    /\ files = <<>> /\ result = <<>>

\* htmlToText on the document
RenderText ==
    /\ pc \in {"text", "prose"}
    /\ out' = htmlToText(html)
    /\ pc' = IF pc = "text" THEN "text done" ELSE "prose done"
    /\ UNCHANGED <<html, processedHtml, matches, i, mergeCount, iters, images, job, files, result>>

NextText == RenderText
SpecText == InitText /\ [][NextText]_vars

(***************************************************************************)
(* PdfConverter: the size ceilings. A text is described by its shape: it   *)
(* has `lines` lines of `width` characters each, joined by newlines.       *)
(***************************************************************************)
CharCeiling == 50000
LineCeiling == 1000

\* textContent.length
TextLength(t) == t.lines * t.width + (t.lines - 1)
\* textContent.length > 50000
OverLong(t) == TextLength(t) > CharCeiling
\* the whole lines, each with its newline, inside the first 50000 characters
WholeLines(t) == CharCeiling \div (t.width + 1)
\* lines.length: the whole lines of the prefix, its last partial line, the
\* empty line and the marker line when the text was cut, else the lines
SplitCount(t) == IF OverLong(t) THEN WholeLines(t) + 3 ELSE t.lines
\* the index in lines of the marker line appended to a text that was cut
MarkerIndex(t) == WholeLines(t) + 2
\* the iterations of the loop: i < lines.length && i < 1000
DrawnLines(t) == Min(SplitCount(t), LineCeiling)
\* the lines of the text itself among the lines drawn
DrawnTextLines(t) == Min(IF OverLong(t) THEN WholeLines(t) + 1 ELSE t.lines, LineCeiling)

\* generatePdfFromHtml and generatePdfFromText: what the written PDF holds
generatePdf(t) ==
    [drawn |-> DrawnLines(t),
     textLines |-> DrawnTextLines(t),
     markerDrawn |-> OverLong(t) /\ MarkerIndex(t) < DrawnLines(t),
     threw |-> FALSE]

LineCounts == {1, 2, 10, 500, 997, 998, 999, 1000, 1001, 1002, 2000, 30000}
LineWidths == {0, 1, 10, 48, 49, 50, 51, 80, 100, 1000, 49999, 50000, 50001}
\* markup: the content starts with an <html> tag, which htmlToText removes
PdfJobs ==
    {j \in [lines : LineCounts, width : LineWidths, markup : BOOLEAN] :
        j.markup => j.width >= 1}

InitPdf ==
    /\ pc = "pdf" /\ job \in PdfJobs
    /\ html = <<>> /\ processedHtml = <<>> /\ matches = <<>>
    /\ i = 0 /\ mergeCount = 0 /\ iters = 0 /\ out = <<>> /\ images = {}
    /\ files = <<>> /\ result = <<>>

\* PdfConverter.convert on content that holds <html: generatePdfFromHtml
PdfFromHtml ==
    /\ pc = "pdf" /\ job.markup
    /\ result' = generatePdf([lines |-> job.lines, width |-> job.width])
    /\ pc' = "pdf done"
    /\ UNCHANGED <<html, processedHtml, matches, i, mergeCount, iters, out, images, job, files>>

\* PdfConverter.convert on any other content: generatePdfFromText
PdfFromText ==
    /\ pc = "pdf" /\ ~job.markup
    /\ result' = generatePdf([lines |-> job.lines, width |-> job.width])
    /\ pc' = "pdf done"
    /\ UNCHANGED <<html, processedHtml, matches, i, mergeCount, iters, out, images, job, files>>

NextPdf == PdfFromHtml \/ PdfFromText
SpecPdf == InitPdf /\ [][NextPdf]_vars

(***************************************************************************)
(* DocumentConverter.convertDocument over the format matrix. A file holds  *)
(* content of a format, tagged with where the content came from.           *)
(***************************************************************************)
Formats == {"docx", "md", "pdf", "html", "txt"}
Missing == [fmt |-> "none", tag |-> "none"]
Original(fmt) == [fmt |-> fmt, tag |-> "original"]
Converted(fmt) == [fmt |-> fmt, tag |-> "converted"]
Stale(fmt) == [fmt |-> fmt, tag |-> "stale"]

\* the switch of WordConverter.convert on the extension of the output path
WordWritten(ext) == IF ext \in {"md", "html", "txt"} THEN Converted(ext) ELSE Converted("html")
\* the switch of MarkdownConverter.convert
MarkdownWritten(content, ext) == IF ext \in {"html", "txt"} THEN Converted(ext) ELSE content
\* the switch of HtmlConverter.convert
HtmlWritten(content, ext) == IF ext \in {"md", "txt"} THEN Converted(ext) ELSE content
\* the switch of TextConverter.convert
TextWritten(content, ext) == IF ext \in {"md", "html"} THEN Converted(ext) ELSE content
\* PdfConverter.convert writes a PDF whatever the path
PdfWritten == Converted("pdf")

\* outputPath.replace('.pdf', '.temp.html'): the output path itself when it
\* does not end in .pdf
TempPath(ext) == IF ext = "pdf" THEN "temp" ELSE "output"
TempExt(ext) == IF ext = "pdf" THEN "html" ELSE ext

Jobs ==
    [inputPath : {"input"}, inputFormat : Formats, outputFormat : Formats, outputExt : Formats,
     inputExists : BOOLEAN, outputExists : BOOLEAN, extractionFails : BOOLEAN,
     writeFails : BOOLEAN]
FilesOf(j) ==
    [input |-> IF j.inputExists THEN Original(j.inputFormat) ELSE Missing,
     output |-> IF j.outputExists THEN Stale(j.outputExt) ELSE Missing,
     temp |-> Missing]

InitConv ==
    /\ pc = "convert" /\ job \in Jobs /\ files = FilesOf(job)
    /\ html = <<>> /\ processedHtml = <<>> /\ matches = <<>>
    /\ i = 0 /\ mergeCount = 0 /\ iters = 0 /\ out = <<>> /\ images = {}
    /\ result = <<>>

Failure(error) == [success |-> FALSE, error |-> error]
\* fs.stat(outputPath) and the result built after converter.convert returned
Returned(fs) ==
    IF fs.output = Missing THEN Failure("ENOENT") ELSE [success |-> TRUE, error |-> "none"]
\* what convertDocument leaves and returns: the result carries the input path
Outcome(j, fs, r) ==
    [files |-> fs,
     result |-> [inputPath |-> j.inputPath, success |-> r.success, error |-> r.error]]
\* converter.convert returned: the try block goes on to fs.stat
Stat(j, fs) == Outcome(j, fs, Returned(fs))
\* the catch block of convertDocument
Thrown(j, fs, error) == Outcome(j, fs, Failure(error))

\* same format: fs.copy
CopyFile(j, fs) ==
    IF j.writeFails THEN Thrown(j, fs, "copy failed")
    ELSE Stat(j, [fs EXCEPT !.output = fs.input])

\* WordConverter.convert(inputPath, path): nothing is written when the
\* extraction or the write throws, the error being returned in a result the
\* caller drops
AfterWord(j, fs, path, ext) ==
    IF j.extractionFails \/ j.writeFails THEN fs ELSE [fs EXCEPT ![path] = WordWritten(ext)]
\* PdfConverter.convert(tempHtmlPath, outputPath), then fs.remove(tempHtmlPath)
AfterPdfStep(fs, temp) == [[fs EXCEPT !.output = PdfWritten] EXCEPT ![temp] = Missing]
\* the second step of docx to pdf and the catch block around both steps
PdfStep(j, fs, temp) ==
    IF fs[temp] = Missing THEN Thrown(j, fs, "ENOENT")
    ELSE IF j.writeFails THEN Thrown(j, [fs EXCEPT ![temp] = Missing], "write failed")
    ELSE Stat(j, AfterPdfStep(fs, temp))
\* docx to pdf: WordConverter to a temporary HTML file, then PdfConverter
WordToPdf(j, fs) ==
    PdfStep(j, AfterWord(j, fs, TempPath(j.outputExt), TempExt(j.outputExt)),
            TempPath(j.outputExt))
\* docx to md, html or txt: WordConverter writes the output path
WordToOther(j, fs) == Stat(j, AfterWord(j, fs, "output", j.outputExt))

\* MarkdownConverter, HtmlConverter and TextConverter catch a failed write and
\* return it in a result the caller drops
Swallowing(j, fs, content) ==
    Stat(j, IF j.writeFails THEN fs ELSE [fs EXCEPT !.output = content])
\* PdfConverter.convert lets a failed write escape
PdfToOther(j, fs) ==
    IF j.writeFails THEN Thrown(j, fs, "write failed")
    ELSE Stat(j, [fs EXCEPT !.output = PdfWritten])

\* getConverter(inputFormat, outputFormat).convert(inputPath, outputPath)
Dispatch(j, fs) ==
    IF j.inputFormat = j.outputFormat THEN CopyFile(j, fs)
    ELSE IF j.inputFormat = "docx"
         THEN (IF j.outputFormat = "pdf" THEN WordToPdf(j, fs) ELSE WordToOther(j, fs))
    ELSE IF j.inputFormat = "md" THEN Swallowing(j, fs, MarkdownWritten(fs.input, j.outputExt))
    ELSE IF j.inputFormat = "html" THEN Swallowing(j, fs, HtmlWritten(fs.input, j.outputExt))
    ELSE IF j.inputFormat = "txt" THEN Swallowing(j, fs, TextWritten(fs.input, j.outputExt))
    ELSE PdfToOther(j, fs)

convertDocument(j, fs) ==
    IF fs.input = Missing THEN Thrown(j, fs, "invalid input") ELSE Dispatch(j, fs)

\* convertDocument returns
Finish(r) ==
    /\ files' = r.files
    /\ result' = r.result
    /\ pc' = "returned"
    /\ UNCHANGED <<html, processedHtml, matches, i, mergeCount, iters, out, images, job>>

\* validateDocument rejects the input
ConvertInvalid ==
    /\ pc = "convert" /\ ~job.inputExists
    /\ Finish(convertDocument(job, files))

ConvertCopy ==
    /\ pc = "convert" /\ job.inputExists /\ job.inputFormat = job.outputFormat
    /\ Finish(convertDocument(job, files))

ConvertWordToPdf ==
    /\ pc = "convert" /\ job.inputExists
    /\ job.inputFormat = "docx" /\ job.outputFormat = "pdf"
    /\ Finish(convertDocument(job, files))

ConvertWord ==
    /\ pc = "convert" /\ job.inputExists
    /\ job.inputFormat = "docx" /\ job.outputFormat \notin {"docx", "pdf"}
    /\ Finish(convertDocument(job, files))

ConvertMarkdown ==
    /\ pc = "convert" /\ job.inputExists
    /\ job.inputFormat = "md" /\ job.outputFormat # "md"
    /\ Finish(convertDocument(job, files))

ConvertHtml ==
    /\ pc = "convert" /\ job.inputExists
    /\ job.inputFormat = "html" /\ job.outputFormat # "html"
    /\ Finish(convertDocument(job, files))

ConvertText ==
    /\ pc = "convert" /\ job.inputExists
    /\ job.inputFormat = "txt" /\ job.outputFormat # "txt"
    /\ Finish(convertDocument(job, files))

ConvertPdf ==
    /\ pc = "convert" /\ job.inputExists
    /\ job.inputFormat = "pdf" /\ job.outputFormat # "pdf"
    /\ Finish(convertDocument(job, files))

\* the text that opens the answer of handleConvertDocument
SuccessMessage == <<"U+6587", "U+6863", "U+8F6C", "U+6362", "U+6210", "U+529F", "U+FF01">>

\* handleConvertDocument after convertDocument returned: the answer is built
\* from the arguments and result.outputSize
AnswerConvertDocument ==
    /\ pc = "returned"
    /\ out' = [isError |-> FALSE, text |-> SuccessMessage]
    /\ pc' = "answered"
    /\ UNCHANGED <<html, processedHtml, matches, i, mergeCount, iters, images, job, files, result>>

NextConv ==
    \/ ConvertInvalid \/ ConvertCopy \/ ConvertWordToPdf \/ ConvertWord
    \/ ConvertMarkdown \/ ConvertHtml \/ ConvertText \/ ConvertPdf
    \/ AnswerConvertDocument
SpecConv == InitConv /\ [][NextConv]_vars

(***************************************************************************)
(* DocumentConverter.batchConvert: the outputs of a batch go to one        *)
(* directory, under the base name of each input.                           *)
(***************************************************************************)
MaxBatch == 2
\* an input path is a base name and an extension
BatchPaths == {<<"a", "docx">>, <<"a", "md">>, <<"b", "md">>}
BatchItems == [inputPath : BatchPaths, inputExists : BOOLEAN, writeFails : BOOLEAN]
Batches ==
    [inputs : UNION {[1..n -> BatchItems] : n \in 0..MaxBatch}, outputFormat : {"html", "txt"}]

\* path.parse(inputPath).name: the output path of an input is
\* <outputDirectory>/<fileName>.<outputFormat>
fileName(item) == item.inputPath[1]

\* the call of convertDocument for one input
JobOf(item, outputFormat) ==
    [inputPath |-> item.inputPath, inputFormat |-> item.inputPath[2],
     outputFormat |-> outputFormat, outputExt |-> outputFormat,
     inputExists |-> item.inputExists, outputExists |-> FALSE,
     extractionFails |-> FALSE, writeFails |-> item.writeFails]
\* the files that call sees: its input and what the directory holds under
\* its base name
ViewOf(item, outputs) ==
    [input |-> IF item.inputExists THEN Original(item.inputPath[2]) ELSE Missing,
     output |-> outputs[fileName(item)],
     temp |-> Missing]

InitBatch ==
    /\ pc = "batch" /\ job \in Batches
    /\ files = [a |-> Missing, b |-> Missing]
    /\ result = <<>> /\ i = 0
    /\ html = <<>> /\ processedHtml = <<>> /\ matches = <<>>
    /\ mergeCount = 0 /\ iters = 0 /\ out = <<>> /\ images = {}

\* one iteration of the loop over inputPaths
BatchStep ==
    /\ pc = "batch" /\ i < Len(job.inputs)
    /\ \E r \in {convertDocument(JobOf(job.inputs[i + 1], job.outputFormat),
                                 ViewOf(job.inputs[i + 1], files))} :
          /\ result' = Append(result, r.result)
          /\ files' = [files EXCEPT ![fileName(job.inputs[i + 1])] = r.files.output]
    /\ i' = i + 1
    /\ UNCHANGED <<pc, html, processedHtml, matches, mergeCount, iters, out, images, job>>

\* the loop is over: batchConvert returns results
BatchReturn ==
    /\ pc = "batch" /\ i = Len(job.inputs)
    /\ pc' = "batch returned"
    /\ UNCHANGED <<html, processedHtml, matches, i, mergeCount, iters, out, images, job,
                   files, result>>

NextBatch == BatchStep \/ BatchReturn
SpecBatch == InitBatch /\ [][NextBatch]_vars

(***************************************************************************)
(* The CallTool request handler of the MCP server. An argument is          *)
(* described by its JavaScript kind.                                       *)
(***************************************************************************)
ToolNames == {"convert_document", "batch_convert_documents", "get_supported_formats",
              "validate_document", "convert"}
PathKinds == {"undefined", "empty", "number", "string"}
FormatKinds == {"undefined", "md", "xyz", "number"}
ListKinds == {"undefined", "string", "empty array", "array"}
\* given is FALSE when the request carries no arguments object
ToolArgs ==
    [given : BOOLEAN, inputPath : PathKinds, outputPath : PathKinds, outputFormat : FormatKinds,
     inputPaths : ListKinds, filePath : PathKinds, ensureDirFails : BOOLEAN]
Requests == [name : ToolNames, arguments : ToolArgs]

\* validateConversionParams(params).isValid
validateConversionParams(params) ==
    /\ params.given
    /\ params.inputPath = "string"
    /\ params.outputPath = "string"
    /\ params.outputFormat = "md"

Throws(error) == [thrown |-> TRUE, error |-> error]
Returns == [thrown |-> FALSE, error |-> "none"]

\* handleConvertDocument: convertDocument catches every error of its own
handleConvertDocument(args) ==
    IF ~validateConversionParams(args) THEN Throws("InvalidParams") ELSE Returns
\* handleBatchConvert: destructuring undefined throws a TypeError
handleBatchConvert(args) ==
    IF ~args.given THEN Throws("TypeError")
    ELSE IF args.inputPaths # "array" THEN Throws("InvalidParams")
    ELSE IF args.ensureDirFails THEN Throws("Error")
    ELSE Returns
handleGetSupportedFormats == Returns
\* handleValidateDocument: validateDocument catches every error of its own
handleValidateDocument(args) ==
    IF ~args.given THEN Throws("TypeError")
    ELSE IF args.filePath \in {"undefined", "empty"} THEN Throws("InvalidParams")
    ELSE Returns

\* the try/catch around the switch: whatever is thrown inside, an McpError
\* included, is answered as InternalError
Answer(outcome) ==
    IF outcome.thrown THEN [isError |-> TRUE, code |-> "InternalError"]
    ELSE [isError |-> FALSE, code |-> "none"]

InitTool ==
    /\ pc = "call" /\ job \in Requests
    /\ html = <<>> /\ processedHtml = <<>> /\ matches = <<>>
    /\ i = 0 /\ mergeCount = 0 /\ iters = 0 /\ out = <<>> /\ images = {}
    /\ files = <<>> /\ result = <<>>

Answered(answer) ==
    /\ out' = answer
    /\ pc' = "tool answered"
    /\ UNCHANGED <<html, processedHtml, matches, i, mergeCount, iters, images, job, files, result>>

CallConvertDocument ==
    /\ pc = "call" /\ job.name = "convert_document"
    /\ Answered(Answer(handleConvertDocument(job.arguments)))
CallBatchConvert ==
    /\ pc = "call" /\ job.name = "batch_convert_documents"
    /\ Answered(Answer(handleBatchConvert(job.arguments)))
CallGetSupportedFormats ==
    /\ pc = "call" /\ job.name = "get_supported_formats"
    /\ Answered(Answer(handleGetSupportedFormats))
CallValidateDocument ==
    /\ pc = "call" /\ job.name = "validate_document"
    /\ Answered(Answer(handleValidateDocument(job.arguments)))
\* the default branch of the switch
CallUnknownTool ==
    /\ pc = "call"
    /\ job.name \notin {"convert_document", "batch_convert_documents", "get_supported_formats",
                         "validate_document"}
    /\ Answered(Answer(Throws("MethodNotFound")))

NextTool ==
    \/ CallConvertDocument \/ CallBatchConvert \/ CallGetSupportedFormats
    \/ CallValidateDocument \/ CallUnknownTool
SpecTool == InitTool /\ [][NextTool]_vars

(***************************************************************************)
(* mergeCodeContent on its own: one call after another over a table of     *)
(* bodies; `result` collects the separators the calls have chosen          *)
(***************************************************************************)
JoinFirsts == <<Chars("x = 1;"), Chars("if (x) {"), Chars("a"), Chars("a\n"), Chars("a;\n\n"),
                Chars("# c"), Chars("foo("), Chars("}\n \n"), Chars("b;<br>\n"),
                Chars("y&nbsp;\n&nbsp;")>>
JoinSeconds == <<Chars("import os"), Chars("b"), Chars("\nb"), Chars("  return 1;"), Chars("}"),
                 Chars("def f():"), Chars("let y;"), Chars("else {"), Chars("\n\nclass A"),
                 Chars("#x")>>
JoinCalls == Len(JoinFirsts) * Len(JoinSeconds)
JoinFirst(k) == JoinFirsts[((k - 1) \div Len(JoinSeconds)) + 1]
JoinSecond(k) == JoinSeconds[((k - 1) % Len(JoinSeconds)) + 1]
\* the separator mergeCodeContent chooses for two bodies (lines 860-876)
separatorOf(code1, code2) ==
    Separator(endsWithCompleteStatement(cleanCodeContent(code1)),
              startsWithCompleteStatement(cleanCodeContent(code2)), cleanCodeContent(code1))

InitJoin ==
    /\ pc = "join" /\ i = 0 /\ result = {}
    /\ html = <<>> /\ processedHtml = <<>> /\ matches = <<>>
    /\ mergeCount = 0 /\ iters = 0 /\ out = <<>> /\ images = {}
    /\ job = <<>> /\ files = <<>>

\* one call of mergeCodeContent, on the next pair of the table
JoinNext ==
    /\ pc = "join" /\ i < JoinCalls
    /\ i' = i + 1
    /\ out' = mergeCodeContent(JoinFirst(i'), JoinSecond(i'))
    /\ result' = result \cup {separatorOf(JoinFirst(i'), JoinSecond(i'))}
    /\ UNCHANGED <<pc, html, processedHtml, matches, mergeCount, iters, images, job, files>>

\* the table is exhausted
JoinEnd ==
    /\ pc = "join" /\ i = JoinCalls
    /\ pc' = "joined"
    /\ UNCHANGED <<html, processedHtml, matches, i, mergeCount, iters, out, images, job, files,
                   result>>

NextJoin == JoinNext \/ JoinEnd
SpecJoin == InitJoin /\ [][NextJoin]_vars

(***************************************************************************)
(* Properties of the code-fragment merger and of the Markdown renderer     *)
(***************************************************************************)
\* the text a code block with this body stands for: the body without markup,
\* its entities decoded
BlockText(body) == cleanCodeContent(body)

\* the code blocks of the input document and, when there are two, the content
\* between them
InputBlocks == CodeBlocks(html)
InputGap ==
    Substring(html, InputBlocks[1].index + Len(InputBlocks[1].whole), InputBlocks[2].index)
TwoFragments == Len(InputBlocks) = 2
Joined(t1, t2, t) == \E sep \in {<<>>, NL, NL2} : t = t1 \o sep \o t2

\* C1: two adjacent code blocks whose cleaned between-content is under 50
\* characters are replaced by the merge pass with exactly one code block whose
\* text is the text of the first body followed by the text of the second.
MergeCorrectness ==
    (pc = "merged" /\ TwoFragments /\ Len(CleanBetween(InputGap)) < MaxGap)
    => /\ Len(CodeBlocks(processedHtml)) = 1
       /\ Joined(BlockText(InputBlocks[1].code), BlockText(InputBlocks[2].code),
                 BlockText(CodeBlocks(processedHtml)[1].code))

\* C2: a block ending in `return 0;` and a block starting a fresh `import`,
\* classified as different languages and separated by more than 50 cleaned
\* characters without a page-break keyword, are not merged: both blocks are
\* still separate after the merge pass.
UnrelatedBlocks ==
    /\ TwoFragments
    /\ EndsWith(BlockText(InputBlocks[1].code), Chars("return 0;"))
    /\ StartsWith(BlockText(InputBlocks[2].code), Chars("import"))
    /\ detectCodeLanguage(BlockText(InputBlocks[1].code))
         # detectCodeLanguage(BlockText(InputBlocks[2].code))
    /\ Len(CleanBetween(InputGap)) > MaxGap
    /\ ~isPageBreakContent(CleanBetween(InputGap))
NegativeCaseNotMerged ==
    (pc = "merged" /\ UnrelatedBlocks)
    => (mergeCount = 0 /\ Len(CodeBlocks(processedHtml)) = 2)

\* C5: a heading of level N renders as N '#', a space and the tag-stripped
\* heading text, and the content of <b>/<strong> is wrapped in `**` (a line
\* break of the paragraph being a newline); in particular
\* <h1>Title</h1><p>Hello <b>world</b></p> renders as "# Title", a blank line
\* and "Hello **world**".
ExpectedHeadingDoc(n, title, lead, bold) ==
    Repeat(Chars("#"), n) \o Chars(" ") \o StripTags(title) \o NL2
      \o Subst(lead, "<br />", "\n") \o Chars("**") \o bold \o Chars("**")
HeadingAndBoldRendering ==
    \A n \in Levels, t \in Titles, x \in Leads, g \in BoldTags :
        (pc = "done" /\ html = HeadingDoc(n, t, x, g, Chars("world")))
        => out = ExpectedHeadingDoc(n, t, x, Chars("world"))

\* C6: detectCodeLanguage returns the first language, in the order python,
\* javascript, java, csharp, css, html, sql, bash, json, that has a matching
\* signature, and the empty string when none has; the block `def foo():`
\* with an indented `pass` is rendered with a python fence tag.
ClaimedOrder == <<"python", "javascript", "java", "csharp", "css", "html", "sql", "bash", "json">>
SignaturesOf(lang) ==
    languagePatterns[CHOOSE k \in 1..Len(languagePatterns) : languagePatterns[k].lang = lang].patterns
Matching(code) == {k \in 1..Len(ClaimedOrder) : Some(SignaturesOf(ClaimedOrder[k]), code)}
FirstMatching(K) == IF K = {} THEN "" ELSE ClaimedOrder[First(K)]
ExpectedLanguage(code) == FirstMatching(Matching(code))
PythonSample == Block(Chars("def foo():\n    pass"))
ClassifierFirstMatch ==
    /\ \A j \in 1..Len(matches) :
          detectCodeLanguage(BlockText(matches[j].code))
            = ExpectedLanguage(BlockText(matches[j].code))
    /\ (pc = "done" /\ html \in {Block(b) : b \in CodeSamples})
       => StartsWith(out, Fence \o Chars(ExpectedLanguage(BlockText(matches[1].code))) \o NL)
    /\ (pc = "done" /\ html = PythonSample) => StartsWith(out, Fence \o Chars("python\n"))
ClassifierWitness ==
    /\ pc = "done" /\ html = PythonSample
    /\ StartsWith(out, Fence \o Chars("python\n"))

\* C9: a failure to create the images directory or to write an image file does
\* not stop the render, and no image reference of the output points at a file
\* that was never written.
ReImageRef == Lit("](./images/") \o Cap(Plus(NotIn({")"}))) \o Lit(")")
ReferencedImages(md) == {MatchAll(ReImageRef, md, F0)[j].g[1] : j \in 1..Len(MatchAll(ReImageRef, md, F0))}
ImageFailuresTolerated ==
    /\ pc # "threw"
    /\ pc = "done" => ReferencedImages(out) \subseteq images

\* the lines of a rendered text that belong to a table box
BoxLines(text) ==
    {l \in {SplitLines(text)[k] : k \in 1..Len(SplitLines(text))} :
        l # <<>> /\ l[1] \in {BoxTop[1], BoxV, BoxRule[1], BoxBottom[1]}}

\* C3: every line of a table box rendered by the plain-text renderer (top
\* border, rows, header rule, bottom border) has the same display width, also
\* when the rows of the table differ in their number of cells.
TableWidthInvariant ==
    pc = "text done"
    => \A l1 \in BoxLines(out), l2 \in BoxLines(out) :
          getDisplayWidth(l1) = getDisplayWidth(l2)

\* C4: the pagination normalizer is idempotent: normalizing the normalized
\* document changes nothing.
NormalizerIdempotent == pc = "normalized twice" => out = processedHtml

\* C7: whenever the text handed to the PDF renderer exceeds 50000 characters
\* or 1000 lines, no more than the ceiling is rendered, the truncation marker
\* is among the lines rendered, and no error is raised.
OverCeiling == TextLength(job) > CharCeiling \/ job.lines > LineCeiling
TruncationMarked ==
    (pc = "pdf done" /\ OverCeiling)
    => /\ result.markerDrawn
       /\ result.textLines <= LineCeiling
       /\ ~result.threw

\* C8: when the extraction of a .docx input fails, convertDocument returns
\* success=false with the extraction failure as its error, and the output
\* path holds what it held before the call, whether or not a file was there.
ExtractionFailed ==
    /\ job.inputExists /\ job.inputFormat = "docx" /\ job.outputFormat # "docx"
    /\ job.outputExt = job.outputFormat /\ job.extractionFails /\ ~job.writeFails
ExtractionErrorPropagated ==
    (pc = "returned" /\ ExtractionFailed)
    => /\ result.success = FALSE
       /\ result.error = "extraction failed"
       /\ files.output = FilesOf(job).output

\* C10: for every pair of distinct formats, a conversion that returns
\* success=true has written content of the requested output format, never
\* the input content unchanged and never content of another format.
SupportedPair ==
    /\ job.inputExists /\ job.inputFormat # job.outputFormat
    /\ job.outputExt = job.outputFormat /\ ~job.outputExists
    /\ ~job.extractionFails /\ ~job.writeFails
FormatMatrix ==
    (pc = "returned" /\ SupportedPair /\ result.success)
    => files.output = Converted(job.outputFormat)

\* C11: batchConvert returns one result per input path, in the order of the
\* input paths, each carrying its own inputPath; an input whose conversion
\* fails gets success=false, and the inputs after it are still converted.
ItemFails(item) == ~item.inputExists \/ item.writeFails
BatchOneResultEach ==
    pc = "batch returned"
    => /\ Len(result) = Len(job.inputs)
       /\ \A k \in 1..Len(result) :
             /\ result[k].inputPath = job.inputs[k].inputPath
             /\ result[k].success = ~ItemFails(job.inputs[k])

\* C18: the convert_document tool answers with the success message only if
\* the conversion result has success=true; a result with success=false is
\* answered with an error.
ToolAnswerFollowsResult ==
    pc = "answered"
    => /\ (out.text = SuccessMessage => result.success)
       /\ (~result.success => out.isError)

\* C19: convertDocument returns success=true only if the converter it
\* dispatched to completed without error and wrote the output file during
\* this call, also when a file already existed at the output path.
ConverterFailed == job.writeFails \/ (job.inputFormat = "docx" /\ job.extractionFails)
SuccessMeansWritten ==
    (pc = "returned" /\ job.outputExt = job.outputFormat /\ result.success)
    => (~ConverterFailed /\ files.output.tag # "stale")

\* C12: the loop of the merge pass exits after a number of iterations bounded
\* by the number of adjacent pairs of code blocks it started with.
AdjacentPairs(n) == IF n = 0 THEN 0 ELSE n - 1
MergeLoopBounded ==
    pc = "merged" => iters <= AdjacentPairs(Len(CodeBlocks(removePageBreaks(html))))

\* C13: in a plain-text table the width of a column is the maximum display
\* width over all cells of the column in all rows, a CJK character counting 2
\* and any other 1; every border segment of a column has that width plus 2 and
\* every cell is padded to it.
ClaimedWidth(cell) ==
    2 * Cardinality({j \in 1..Len(cell) : cell[j] \in CJK})
      + Cardinality({j \in 1..Len(cell) : cell[j] \notin CJK})
RowsWithCells(t) == SelectSeq(t, LAMBDA cells : cells # <<>>)
ClaimedColumns(rows) == Max({0} \cup {Len(rows[r]) : r \in 1..Len(rows)})
ClaimedColumnWidth(rows, c) ==
    Max({ClaimedWidth(rows[r][c]) : r \in {q \in 1..Len(rows) : Len(rows[q]) >= c}})
ClaimedBorder(rows, ends) ==
    <<ends[1]>>
      \o Join([c \in 1..ClaimedColumns(rows) |->
                 Repeat(<<BoxH>>, ClaimedColumnWidth(rows, c) + 2)], <<ends[2]>>)
      \o <<ends[3]>>
ClaimedRow(rows, r) ==
    <<BoxV>>
      \o Join([c \in 1..Len(rows[r]) |->
                 Chars(" ") \o rows[r][c]
                   \o Repeat(Chars(" "),
                             ClaimedColumnWidth(rows, c) - ClaimedWidth(rows[r][c]) + 1)],
              <<BoxV>>)
      \o <<BoxV>>
ClaimedBox(rows) ==
    {ClaimedBorder(rows, BoxTop), ClaimedBorder(rows, BoxBottom)}
      \cup {ClaimedRow(rows, r) : r \in 1..Len(rows)}
      \cup (IF Len(rows) > 1 THEN {ClaimedBorder(rows, BoxRule)} ELSE {})
ColumnWidthIsMaximum ==
    (pc = "text done" /\ job # <<>>) => BoxLines(out) = ClaimedBox(RowsWithCells(job))
ColumnWidthWitness ==
    /\ pc = "text done"
    /\ job = <<<<<<"U+540D", "U+79F0">>, Chars("x")>>, <<Chars("a"), Chars("bb")>>>>
    /\ Border(BoxTop, <<4, 2>>) \in BoxLines(out)

\* the language classes carried by the code blocks of a document
ExplicitLanguages(h) ==
    {MatchAll(ReTaggedCodeBlock, h, FI)[k].g[1] :
        k \in 1..Len(MatchAll(ReTaggedCodeBlock, h, FI))}

\* C14: in the Markdown render, merge pre-pass included, every code block that
\* carries class="language-X" is emitted as a fence tagged X, also when the
\* tagged block is adjacent to another code block.
ExplicitLanguageKept ==
    pc = "done" =>
        \A language \in ExplicitLanguages(html) : Includes(out, Fence \o language \o NL)

\* C15: a link <a href="url">text</a> is rendered as [text](url) by the
\* Markdown renderer and as text (url) by the plain-text renderer; the url is
\* never dropped.
LinksKeepUrl ==
    pc = "prose done" =>
        \A u \in LinkUrls, t \in LinkTexts :
            Includes(html, Link(u, t)) =>
                /\ Includes(RenderMarkdown(html), Chars("[") \o t \o Chars("](") \o u \o Chars(")"))
                /\ Includes(out, t \o Chars(" (") \o u \o Chars(")"))

\* C16: a code block that is empty after cleaning is dropped from the output
\* of both renderers: no empty fence in Markdown, no empty boxed code section
\* in plain text.
BlankCodeDropped ==
    (pc = "prose done" /\ html \in BlankCodeDocs) =>
        /\ ~Includes(RenderMarkdown(html), Fence)
        /\ ~Includes(out, CodeBlockWord)
        /\ ~Includes(out, <<BoxH>>)

\* C17: a table that yields no row (no <tr>, or only <tr> without cells)
\* renders as the empty-table placeholder in plain text and as the empty
\* string in Markdown; no empty box and no stray table text is emitted.
ZeroRowTable ==
    (pc = "prose done" /\ html \in RowlessTables \cup CellLessTables) =>
        /\ out = EmptyTableWords
        /\ RenderMarkdown(html) = <<>>

\* C20: the merge pass never merges an adjacent pair when either code body is
\* empty after cleaning, whatever lies between the two blocks.
EmptyBodyNeverMerged ==
    [][(/\ pc = "loop" /\ i < Len(matches) - 1
        /\ \/ Trim(cleanCodeContent(matches[i + 1].code)) = <<>>
           \/ Trim(cleanCodeContent(matches[i + 2].code)) = <<>>)
          => processedHtml' = processedHtml]_vars

\* one decoding of the entities cleanCodeContent knows, left to right
ReEntity ==
    Alt(<<Lit("&lt;"), Lit("&gt;"), Lit("&amp;"), Lit("&quot;"), Lit("&#39;"), Lit("&nbsp;"),
          Lit("&apos;")>>)
EntityChar(e) ==
    IF e = Chars("&lt;") THEN Chars("<")
    ELSE IF e = Chars("&gt;") THEN Chars(">")
    ELSE IF e = Chars("&amp;") THEN Chars("&")
    ELSE IF e = Chars("&quot;") THEN Chars("\"")
    ELSE IF e = Chars("&nbsp;") THEN Chars(" ")
    ELSE Chars("'")
DecodeOnce(s) == ReplaceAll(ReEntity, s, F0, LAMBDA mt : EntityChar(mt.w))
\* the text the claim expects between the fences for a code body
ClaimedCodeText(body) == TidyLines(DecodeOnce(StripTags(body)))
SingleBlock == Len(InputBlocks) = 1 /\ html = InputBlocks[1].whole

\* C21: for a code block of the input, the text between the fences of the
\* Markdown output is the body after tag stripping and one entity decoding,
\* line breaks and indentation kept; no stage before or after the code block
\* rule changes it.
CodeVerbatim ==
    (pc = "done" /\ SingleBlock /\ Trim(ClaimedCodeText(InputBlocks[1].code)) # <<>>)
    => /\ StartsWith(out, Fence)
       /\ EndsWith(out, NL \o ClaimedCodeText(InputBlocks[1].code) \o NL \o Fence)

\* C22: right after every merge step the re-scan of the document finds exactly
\* one code block fewer than before the merge.
MergeReducesBlocks ==
    [][mergeCount' = mergeCount + 1 => Len(matches') = Len(matches) - 1]_vars

\* C23: whenever the loop examines a pair, the match list was computed from
\* the current document text, and the text at [index, index + length) of the
\* current document is the matched block.
OffsetsCurrent ==
    pc = "loop" =>
        /\ matches = CodeBlocks(processedHtml)
        /\ \A k \in 1..Len(matches) :
              Substring(processedHtml, matches[k].index,
                        matches[k].index + Len(matches[k].whole)) = matches[k].whole
OffsetsCurrentWitness ==
    /\ pc = "loop" /\ mergeCount >= 1 /\ i < Len(matches) - 1 /\ html \in ThreeBlockDocs

\* C26: in the output of the merge pass no adjacent pair of code blocks is left
\* that shouldMergeCodeBlocks would merge.
LeftBlocks == CodeBlocks(processedHtml)
LeftGap(k) ==
    Substring(processedHtml, LeftBlocks[k].index + Len(LeftBlocks[k].whole),
              LeftBlocks[k + 1].index)
MergeFixpoint ==
    pc = "merged" =>
        \A k \in 1..(Len(LeftBlocks) - 1) :
            ~shouldMergeCodeBlocks(LeftGap(k), LeftBlocks[k].code, LeftBlocks[k + 1].code)

\* the cleaned bodies of the pair the loop examines, as they stand in the blocks
ExaminedBody(k) == cleanCodeContent(matches[i + k].code)
\* the pair is decided by the language and indentation rule: no earlier rule
\* of shouldMergeCodeBlocks applies, and the rule after it does not either
RuleDecides ==
    /\ pc = "loop" /\ i < Len(matches) - 1 /\ iters < MaxIters
    /\ Len(CleanBetween(BetweenContent)) > MaxGap
    /\ ~isPageBreakContent(CleanBetween(BetweenContent))
    /\ Trim(ExaminedBody(1)) # <<>> /\ Trim(ExaminedBody(2)) # <<>>
    /\ ~hasCodeContinuity(Trim(ExaminedBody(1)), Trim(ExaminedBody(2)))
    /\ ~isContinuousCodeStructure(Trim(ExaminedBody(1)), Trim(ExaminedBody(2)))
ClaimedIndentationRule ==
    /\ isSameProgrammingLanguage(ExaminedBody(1), ExaminedBody(2))
    /\ hasSimilarIndentation(ExaminedBody(1), ExaminedBody(2))

\* C24: when neither the gap rule, the keyword rule nor the continuity check
\* applies, a pair is merged by the language and indentation rule exactly when
\* both bodies classify as the same non-empty language and the indentation of
\* the last non-blank line of the first body is within 4 of the indentation of
\* the first non-blank line of the second body as it stands in the block.
IndentationRule ==
    [][RuleDecides => ((mergeCount' = mergeCount + 1) <=> ClaimedIndentationRule)]_vars

\* the merged text the claim describes, for a separator sep
ClaimedJoin(code1, code2, sep) ==
    ReplaceFirst(ReTrailingNewlines, cleanCodeContent(code1), F0, LAMBDA mt : <<>>) \o sep
      \o ReplaceFirst(ReLeadingNewlines, cleanCodeContent(code2), F0, LAMBDA mt : <<>>)
BothComplete(code1, code2) ==
    /\ endsWithCompleteStatement(cleanCodeContent(code1))
    /\ startsWithCompleteStatement(cleanCodeContent(code2))

\* C25: the merged text of two non-empty bodies is body1 without trailing
\* newlines, a separator, body2 without leading newlines; the separator is two
\* newlines when body1 ends and body2 starts with a complete statement, else
\* one newline or nothing; and each of the three separators is chosen for
\* some input.
SeparatorOutcomes ==
    /\ (pc = "join" /\ i >= 1) =>
          \E sep \in (IF BothComplete(JoinFirst(i), JoinSecond(i)) THEN {NL2} ELSE {NL, <<>>}) :
              out = ClaimedJoin(JoinFirst(i), JoinSecond(i), sep)
    /\ pc = "joined" => {NL2, NL, <<>>} \subseteq result

\* the image files the output refers to, one entry for each reference
ImageReferences(md) ==
    [j \in 1..Len(MatchAll(ReImageRef, md, F0)) |-> MatchAll(ReImageRef, md, F0)[j].g[1]]

\* C30: within one render every embedded base64 image is saved under a file
\* name distinct from those of the other embedded images, so no image file is
\* overwritten by a later image of the same render.
ImageNamesDistinct ==
    pc = "done" =>
        \A j, k \in 1..Len(ImageReferences(out)) :
            j # k => ImageReferences(out)[j] # ImageReferences(out)[k]

WordToPdfReturned ==
    /\ pc \in {"returned", "answered"} /\ job.inputExists
    /\ job.inputFormat = "docx" /\ job.outputFormat = "pdf"
BothStepsSucceed == ~job.extractionFails /\ ~job.writeFails

\* C27: when the two-step docx to pdf conversion returns, the temporary HTML
\* file does not exist, the cleanup has not removed the requested output
\* file, and when both steps succeeded the output file exists at outputPath,
\* whatever the output path.
TempFileCleanedUp ==
    WordToPdfReturned =>
        /\ files.temp = Missing
        /\ job.outputExists => files.output # Missing
        /\ BothStepsSucceed => (result.success /\ files.output = PdfWritten)

\* C28: in a batch the output path of each input differs from the output path
\* of every other input, so every input with a success=true result has its
\* own output file, not overwritten by another input of the same base name.
BatchOutputsDistinct ==
    pc = "batch returned" =>
        \A j, k \in 1..Len(result) :
            (/\ job.inputs[j].inputPath # job.inputs[k].inputPath
             /\ result[j].success /\ result[k].success)
            => fileName(job.inputs[j]) # fileName(job.inputs[k])

KnownTools == {"convert_document", "batch_convert_documents", "get_supported_formats",
               "validate_document"}
\* the parameters of the call are not those the tool asks for
InvalidParameters ==
    \/ job.name = "convert_document" /\ ~validateConversionParams(job.arguments)
    \/ job.name = "batch_convert_documents"
         /\ (~job.arguments.given \/ job.arguments.inputPaths # "array")
    \/ job.name = "validate_document"
         /\ (~job.arguments.given \/ job.arguments.filePath # "string")

\* C29: a call to an unknown tool is answered with MethodNotFound, a call
\* with invalid parameters with InvalidParams, and InternalError answers only
\* failures during the execution of a tool.
ErrorCodes ==
    pc = "tool answered" =>
        /\ job.name \notin KnownTools => out.code = "MethodNotFound"
        /\ InvalidParameters => out.code = "InvalidParams"
        /\ out.code = "InternalError" => (job.name \in KnownTools /\ ~InvalidParameters)

=============================================================================
